---- MODULE Spec2Model ----
(***************************************************************************)
(* Demo services of brianhardin.info: the in-memory session store           *)
(* (DemoServiceBase) and the payment matching engine                       *)
(* (PaymentProcessingService) of app/services/demo.py.                     *)
(*                                                                         *)
(* Money is a Python float: binary floating point, rounded to the nearest  *)
(* representable value (ties to even) after every addition and             *)
(* subtraction.  The model counts it in 1/128 of a dollar and keeps        *)
(* FloatBits significant bits where binary64 keeps 53: amounts below       *)
(* 2^FloatBits units are exact, larger ones are rounded.  Confidence       *)
(* scores are counted in hundredths (0.95 is 95).  Text that the program   *)
(* searches (invoice numbers, payment references) is a sequence of         *)
(* characters.  Time is the wall clock in whole seconds.                   *)
(***************************************************************************)
EXTENDS Integers, Sequences, FiniteSets, TLC

VARIABLES
    now,                \* datetime.now(), seconds
    sessions,           \* DemoServiceBase.sessions: session id -> DemoSession
    next_sid,           \* number of session ids drawn so far (uuid4 never repeats)
    sample_invoices,    \* PaymentProcessingService.sample_invoices
    processed_payments, \* PaymentProcessingService.processed_payments
    pc,                 \* position of the call that is under way
    call,               \* locals of the call that is under way
    ret,                \* what the last finished call returned or raised
    pre,                \* history: the service's state when the last call began
    connection_manager, \* ConnectionManager: active_connections, connection_data
    realtime_simulator, \* RealtimeDataSimulator: active_simulations
    tasks,              \* the simulation tasks ever created, by number
    websockets          \* each WebSocket: its endpoint coroutine and its client

wsvars == <<connection_manager, realtime_simulator, tasks, websockets>>

vars == <<now, sessions, next_sid, sample_invoices, processed_payments,
          pc, call, ret, pre, wsvars>>

----------------------------------------------------------------------------
(* Program constants *)

SESSION_TTL_SECONDS == 3600

(* Bounds of the model *)

MAX_SESSIONS == 3       \* 100 in the service; its test lowers it to 3

MaxSessionIds == 4      \* session ids ever drawn in the session-store runs
MaxEpochs == 1          \* the clock stops after this many TTLs ...
MaxOffset == 1          \* ... and stays within this many seconds of a multiple
MaxPayments == 2        \* process_payment calls that reach the store step
MaxStatusIds == 2       \* session ids ever drawn in the status-update runs
MaxPipelineIds == 1     \* session ids ever drawn in the data pipeline runs

FloatBits == 22         \* significant bits of a float

UnitsPerDollar == 2^7

Dollars(d) == d * UnitsPerDollar

Min(a, b) == IF a < b THEN a ELSE b
Max(a, b) == IF a > b THEN a ELSE b
Abs(a) == IF a < 0 THEN -a ELSE a

RECURSIVE SumSeq(_)
SumSeq(s) == IF s = <<>> THEN 0 ELSE Head(s) + SumSeq(Tail(s))

\* the distance between neighbouring floats at the magnitude of x >= 0
RECURSIVE Quantum(_, _)
Quantum(x, q) == IF x < q * (2^FloatBits) THEN q ELSE Quantum(x, 2 * q)

\* the float nearest to x, ties to the even one
Fl(x) ==
    LET a == Abs(x)
        q == Quantum(a, 1)
        m == a \div q
        r == a - (m * q)
        n == IF 2 * r < q THEN m
             ELSE IF 2 * r > q THEN m + 1
             ELSE IF m % 2 = 0 THEN m ELSE m + 1
    IN  IF x < 0 THEN -(n * q) ELSE n * q

FAdd(a, b) == Fl(a + b)
FSub(a, b) == Fl(a - b)

\* sum(xs): from 0, left to right
RECURSIVE FSum(_, _)
FSum(acc, xs) == IF xs = <<>> THEN acc ELSE FSum(FAdd(acc, Head(xs)), Tail(xs))

----------------------------------------------------------------------------
(* DemoSession and the session store (DemoServiceBase) *)

SessionIds == 1..MaxSessionIds

NoData == [k \in {} |-> 0]

DictUpdateReplace(data, new) == new

\* data.update(new): keys of new replace, the other keys are kept
DictUpdate(data, new) == new @@ data

NewSession(demo_type, t) ==
    [demo_type |-> demo_type, status |-> "idle", created_at |-> t,
     updated_at |-> t, data |-> NoData]

UpdateStatusDataOnly(session, status, data, t) ==
    [session EXCEPT !.updated_at = t,
                    !.data = IF DOMAIN data # {} THEN DictUpdate(@, data) ELSE @]

UpdateStatus(session, status, data, t) ==
    [session EXCEPT !.status = status,
                    !.updated_at = t,
                    !.data = IF DOMAIN data # {} THEN DictUpdate(@, data) ELSE @]

IsExpiredNever(session, t) == FALSE

IsExpiredSinceUpdate(session, t) == (t - session.updated_at) > SESSION_TTL_SECONDS

IsExpired(session, t) == (t - session.created_at) > SESSION_TTL_SECONDS

Restrict(f, S) == [x \in S |-> f[x]]

CleanupSkipped(ss, t) == ss

CleanupExpiredSessions(ss, t) ==
    Restrict(ss, {sid \in DOMAIN ss : ~IsExpired(ss[sid], t)})

\* get_session: whether it returns a session, and the store it leaves
GetSessionFound(ss, sid, t) == sid \in DOMAIN ss /\ ~IsExpired(ss[sid], t)

GetSessionStoreKept(ss, sid, t) == ss

GetSessionStore(ss, sid, t) ==
    IF sid \in DOMAIN ss /\ IsExpired(ss[sid], t)
    THEN Restrict(ss, DOMAIN ss \ {sid})
    ELSE ss

UpdateSessionStatus(ss, sid, status, data, t) ==
    IF GetSessionFound(ss, sid, t)
    THEN [ss EXCEPT ![sid] = UpdateStatus(@, status, data, t)]
    ELSE GetSessionStore(ss, sid, t)

Snapshot ==
    [sessions |-> sessions, sample_invoices |-> sample_invoices,
     processed_payments |-> processed_payments, now |-> now]

Returned(op, args, value) ==
    [op |-> op, args |-> args, outcome |-> "ok", value |-> value]

Raised(op, args, error) ==
    [op |-> op, args |-> args, outcome |-> error, value |-> <<>>]

\* the clock moves on by d seconds
Tick(d) ==
    /\ (now + d) \div SESSION_TTL_SECONDS <= MaxEpochs
    /\ (now + d) % SESSION_TTL_SECONDS <= MaxOffset
    /\ now' = now + d
    /\ UNCHANGED <<sessions, next_sid, sample_invoices, processed_payments,
                   pc, call, ret, pre, wsvars>>

CreateSession(idCap) ==
    /\ pc = "idle"
    /\ LET cleaned == CleanupExpiredSessions(sessions, now)
           sid == next_sid + 1
       IN  IF Cardinality(DOMAIN cleaned) >= MAX_SESSIONS
           THEN /\ sessions' = cleaned
                /\ next_sid' = next_sid
                /\ ret' = Raised("create_session", "payment_processing",
                                 "Maximum number of demo sessions reached")
           ELSE /\ next_sid < idCap
                /\ sessions' = (sid :> NewSession("payment_processing", now)) @@ cleaned
                /\ next_sid' = sid
                /\ ret' = Returned("create_session", "payment_processing", sid)
    /\ pre' = Snapshot
    /\ UNCHANGED <<now, sample_invoices, processed_payments, pc, call, wsvars>>

GetSessionCall ==
    /\ pc = "idle"
    /\ \E sid \in SessionIds :     \* Optional[DemoSession]: <<session>> or <<>>
          /\ sessions' = GetSessionStore(sessions, sid, now)
          /\ ret' = IF GetSessionFound(sessions, sid, now)
                    THEN Returned("get_session", sid, <<sessions[sid]>>)
                    ELSE Returned("get_session", sid, <<>>)
    /\ pre' = Snapshot
    /\ UNCHANGED <<now, next_sid, sample_invoices, processed_payments, pc, call,
                   wsvars>>

\* the payloads update_session_status is called with: None and two dicts;
\* the ids: those drawn so far and one never drawn
UpdateDataInputs == {NoData, [progress |-> 1], [result |-> 2]}

\* update_session_status, its arguments being among the given
UpdateSessionStatusWith(ids, statuses, datas) ==
    /\ pc = "idle"
    /\ \E sid \in ids, status \in statuses, data \in datas :
          /\ sessions' = UpdateSessionStatus(sessions, sid, status, data, now)
          /\ ret' = Returned("update_session_status",
                             [session_id |-> sid, status |-> status, data |-> data],
                             "None")
    /\ pre' = Snapshot
    /\ UNCHANGED <<now, next_sid, sample_invoices, processed_payments, pc, call,
                   wsvars>>

UpdateSessionStatusCall ==
    UpdateSessionStatusWith(1..(next_sid + 1), {"running", "completed"},
                            UpdateDataInputs)

----------------------------------------------------------------------------
(* Text: sequences of characters *)

Chars_REF_12345 == <<"R","E","F","-","1","2","3","4","5">>
Chars_PAY_2024_0002 == <<"P","A","Y","-","2","0","2","4","-","0","0","0","2">>
Chars_INV == <<"I","N","V">>

Digit(n) == <<"0","1","2","3","4","5","6","7","8","9">>[n + 1]

\* f"{n:03d}" as a string, f"{n:04d}" as characters
Pad3(n) == Digit(n \div 100) \o Digit((n \div 10) % 10) \o Digit(n % 10)

Pad4(n) ==
    <<Digit(n \div 1000), Digit((n \div 100) % 10), Digit((n \div 10) % 10),
      Digit(n % 10)>>

\* s.replace(c, "") for one character c
RemoveChar(s, c) == SelectSeq(s, LAMBDA x : x # c)

\* s.replace(sub, ""): the occurrences of sub, left to right, not overlapping
RECURSIVE RemoveSub(_, _)
RemoveSub(s, sub) ==
    IF Len(s) < Len(sub) \/ sub = <<>> THEN s
    ELSE IF SubSeq(s, 1, Len(sub)) = sub
         THEN RemoveSub(SubSeq(s, Len(sub) + 1, Len(s)), sub)
         ELSE <<Head(s)>> \o RemoveSub(Tail(s), sub)

\* needle in hay
Contains(hay, needle) ==
    \E k \in 0..(Len(hay) - Len(needle)) :
        SubSeq(hay, k + 1, k + Len(needle)) = needle

----------------------------------------------------------------------------
(* Invoices: PaymentProcessingService._generate_sample_invoices *)

CustomerIds == <<"CUST001", "CUST002">>

InvoiceId(i, j) == "INV-" \o Pad3(i + 1) \o "-" \o Pad3(j + 1)

InvoiceNumber(i, j) ==
    <<"I","N","V","-","2","0","2","4","-">> \o Pad4((i * 4) + j + 1)

\* age: days since the invoice date, random.randint(10, 120); due 30 days later
NewInvoice(i, j, amount, age) ==
    [invoice_id |-> InvoiceId(i, j),
     invoice_number |-> InvoiceNumber(i, j),
     customer_id |-> CustomerIds[i + 1],
     amount |-> Fl(amount),
     balance |-> Fl(amount),
     days_outstanding |-> Max(0, age - 30)]

\* the draws of the generator the model keeps: round(uniform(5000, 50000), 2)
\* and randint(10, 120), two invoices per customer; the first invoice of
\* the second customer is an amount that is no whole number of dollars
InvoiceAges == {75, 90}

OddAmounts == {Dollars(5000) + 1, Dollars(5000) + 3}

SampleInvoiceLists ==
    { <<NewInvoice(0, 0, Dollars(5000), d1), NewInvoice(0, 1, Dollars(10000), d2),
        NewInvoice(1, 0, odd, 120), NewInvoice(1, 1, Dollars(40000), 10)>> :
        d1 \in InvoiceAges, d2 \in InvoiceAges, odd \in OddAmounts }

Indices(n) == [k \in 1..n |-> k]

\* the invoices are Python objects shared with sample_invoices: a list of
\* invoices is a list of positions in sample_invoices
GetCustomerInvoicesAnyCustomer(invs, customer_id) ==
    SelectSeq(Indices(Len(invs)), LAMBDA k : invs[k].balance > 0)

GetCustomerInvoices(invs, customer_id) ==
    SelectSeq(Indices(Len(invs)),
              LAMBDA k : invs[k].customer_id = customer_id /\ invs[k].balance > 0)

GetAllOpenInvoices(invs) ==
    SelectSeq(Indices(Len(invs)), LAMBDA k : invs[k].balance > 0)

----------------------------------------------------------------------------
(* PaymentEntry: the payments the model submits (amount > 0, 1..50 characters
   of reference, as the pydantic model validates) *)

PaymentAmounts ==
    {Dollars(4000), Dollars(5000), Dollars(10000), Dollars(10000) + 1, Dollars(30000)}

PaymentInputs ==
    [customer_id : {"CUST001"}, amount : PaymentAmounts,
     payment_method : {"ach"}, reference : {Chars_REF_12345}]
    \cup
    [customer_id : {"CUST001"}, amount : {Dollars(4000)},
     payment_method : {"wire"}, reference : {Chars_PAY_2024_0002}]
    \cup
    [customer_id : {"CUST002"}, amount : {Fl(Dollars(40000) + 2)},
     payment_method : {"check"}, reference : {Chars_REF_12345}]
    \cup
    [customer_id : {"CUST999"}, amount : {Dollars(5000)},
     payment_method : {"check"}, reference : {Chars_REF_12345}]

----------------------------------------------------------------------------
(* The matching engine: PaymentProcessingService *)

\* sorted(invoices, key=days_outstanding, reverse=True): stable, ties keep
\* their order in the list
RECURSIVE SortInto(_, _, _)
SortInto(invs, todo, done) ==
    IF todo = <<>> THEN done
    ELSE LET x == Head(todo)
             k == Cardinality({p \in 1..Len(done) :
                     invs[done[p]].days_outstanding >= invs[x].days_outstanding})
         IN  SortInto(invs, Tail(todo),
                      SubSeq(done, 1, k) \o <<x>> \o SubSeq(done, k + 1, Len(done)))

SortedUnsorted(invs, idxs) == idxs

SortedInvoices(invs, idxs) == SortInto(invs, idxs, <<>>)

\* round(x, 2) of x given in 1/10000, as binary floating point rounds the
\* values the engine can produce: 0.95 * 0.9 is 0.85, 0.85 * 0.9 is 0.77
Round2(x) ==
    IF x = 8550 THEN 85
    ELSE IF x = 7650 THEN 77
    ELSE (x + 50) \div 100

\* the division of the second test raises ZeroDivisionError on a zero balance
ConfidenceRaises(payment, invoice) ==
    /\ ~(Abs(FSub(payment.amount, invoice.balance)) * 100 < UnitsPerDollar)
    /\ invoice.balance = 0

CalculateMatchConfidenceNoExact(payment, invoice) ==
    LET diff == Abs(FSub(payment.amount, invoice.balance))
        number == RemoveSub(RemoveChar(invoice.invoice_number, "-"), Chars_INV)
        base == IF (IF invoice.balance > 0 THEN diff * 20 < invoice.balance
                    ELSE TRUE)
                     THEN 8500
                ELSE IF Contains(RemoveChar(payment.reference, "-"), number) THEN 9000
                ELSE 7000
        aged == IF invoice.days_outstanding > 90 THEN (base * 9) \div 10 ELSE base
    IN  Round2(aged)

CalculateMatchConfidenceReferenceFirst(payment, invoice) ==
    LET diff == Abs(FSub(payment.amount, invoice.balance))
        number == RemoveSub(RemoveChar(invoice.invoice_number, "-"), Chars_INV)
        base == IF diff * 100 < UnitsPerDollar THEN 9500
                ELSE IF Contains(RemoveChar(payment.reference, "-"), number) THEN 9000
                ELSE IF (IF invoice.balance > 0 THEN diff * 20 < invoice.balance
                         ELSE TRUE)
                     THEN 8500
                ELSE 7000
        aged == IF invoice.days_outstanding > 90 THEN (base * 9) \div 10 ELSE base
    IN  Round2(aged)

CalculateMatchConfidence(payment, invoice) ==
    LET diff == Abs(FSub(payment.amount, invoice.balance))
        number == RemoveSub(RemoveChar(invoice.invoice_number, "-"), Chars_INV)
        base == IF diff * 100 < UnitsPerDollar THEN 9500
                ELSE IF (IF invoice.balance > 0 THEN diff * 20 < invoice.balance
                         ELSE TRUE)
                     THEN 8500
                ELSE IF Contains(RemoveChar(payment.reference, "-"), number) THEN 9000
                ELSE 7000
        aged == IF invoice.days_outstanding > 90 THEN (base * 9) \div 10 ELSE base
    IN  Round2(aged)

AmountToApplyWholeBalance(remaining_amount, balance) == balance

AmountToApply(remaining_amount, balance) == Min(remaining_amount, balance)

MatchTypeStrict(amount_to_apply, remaining_amount, balance) ==
    IF amount_to_apply = balance /\ remaining_amount > balance THEN "exact"
    ELSE IF amount_to_apply < balance THEN "partial"
    ELSE "manual"

MatchType(amount_to_apply, remaining_amount, balance) ==
    IF amount_to_apply = balance /\ remaining_amount >= balance THEN "exact"
    ELSE IF amount_to_apply < balance THEN "partial"
    ELSE "manual"

NewMatch(invoice, amount_to_apply, confidence, match_type) ==
    [payment_id |-> "temp",
     invoice_id |-> invoice.invoice_id,
     amount_applied |-> amount_to_apply,
     confidence_score |-> confidence,
     match_type |-> match_type]

TotalApplied(matches) ==
    FSum(0, [k \in 1..Len(matches) |-> matches[k].amount_applied])

RemainingAmount(amount, total_applied) == Max(0, FSub(amount, total_applied))

OverallStatusAppliedFirst(remaining_amount, total_applied) ==
    IF total_applied > 0 THEN "partial"
    ELSE IF remaining_amount = 0 THEN "matched"
    ELSE "exception"

OverallStatus(remaining_amount, total_applied) ==
    IF remaining_amount = 0 THEN "matched"
    ELSE IF total_applied > 0 THEN "partial"
    ELSE "exception"

GenerateProcessingNotes(payment, matches, remaining) ==
    (IF matches # <<>>
     THEN << <<"Successfully matched invoice(s)", Len(matches)>>,
             <<"Applied to open invoices", TotalApplied(matches)>> >>
     ELSE <<>>)
    \o
    (IF remaining > 0
     THEN << <<"Remaining unapplied amount", remaining>>,
             <<"Manual review required for remaining balance">> >>
     ELSE <<>>)
    \o
    (IF payment.payment_method = "ach"
     THEN << <<"ACH payment processed with standard clearing time">> >>
     ELSE IF payment.payment_method = "wire"
     THEN << <<"Wire transfer - funds available immediately">> >>
     ELSE IF payment.payment_method = "check"
     THEN << <<"Check payment - subject to clearing period">> >>
     ELSE <<>>)

\* f"PAY-{date}-{n:04d}"
PaymentId(t, n) == <<"PAY", t \div 86400, n>>

NewBalanceSwapped(balance, amount_applied) == FSub(amount_applied, balance)

NewBalance(balance, amount_applied) == Max(0, FSub(balance, amount_applied))

ApplyMatchEveryInvoice(invs, match) ==
    [k \in 1..Len(invs) |->
        [invs[k] EXCEPT !.balance = NewBalance(@, match.amount_applied)]]

ApplyMatch(invs, match) ==
    LET hits == {k \in 1..Len(invs) : invs[k].invoice_id = match.invoice_id}
    IN  IF hits = {} THEN invs
        ELSE LET k == CHOOSE h \in hits : \A g \in hits : h <= g
             IN  [invs EXCEPT ![k].balance = NewBalance(@, match.amount_applied)]

RECURSIVE ApplyEach(_, _)
ApplyEach(invs, matches) ==
    IF matches = <<>> THEN invs
    ELSE ApplyEach(ApplyMatch(invs, Head(matches)), Tail(matches))

ApplyPaymentMatchesTwice(invs, matches) == ApplyEach(ApplyEach(invs, matches), matches)

ApplyPaymentMatches(invs, matches) == ApplyEach(invs, matches)

----------------------------------------------------------------------------
(* _find_payment_matches: the loop over the sorted invoices.  The result
   is the list of matches, or the exception the confidence score raised. *)

RECURSIVE FindLoop(_, _, _, _, _)
FindLoop(invs, payment, todo, matches, remaining_amount) ==
    IF todo = <<>> \/ remaining_amount <= 0
    THEN [raised |-> "", matches |-> matches]
    ELSE LET invoice == invs[Head(todo)]
             confidence == CalculateMatchConfidence(payment, invoice)
             amount_to_apply == AmountToApply(remaining_amount, invoice.balance)
             match_type == MatchType(amount_to_apply, remaining_amount, invoice.balance)
         IN  IF invoice.balance <= 0
             THEN FindLoop(invs, payment, Tail(todo), matches, remaining_amount)
             ELSE IF ConfidenceRaises(payment, invoice)
             THEN [raised |-> "ZeroDivisionError", matches |-> matches]
             ELSE IF confidence < 50
             THEN FindLoop(invs, payment, Tail(todo), matches, remaining_amount)
             ELSE FindLoop(invs, payment, Tail(todo),
                           Append(matches, NewMatch(invoice, amount_to_apply,
                                                    confidence, match_type)),
                           FSub(remaining_amount, amount_to_apply))

FindPaymentMatches(invs, payment, invoices) ==
    FindLoop(invs, payment, SortedInvoices(invs, invoices), <<>>, payment.amount)

\* lines 153-177: the result built from the matches
BuildResult(payment, matches, t, n) ==
    LET total_applied == TotalApplied(matches)
        remaining_amount == RemainingAmount(payment.amount, total_applied)
    IN  [payment_id |-> PaymentId(t, n + 1),
         status |-> OverallStatus(remaining_amount, total_applied),
         matches |-> matches,
         remaining_amount |-> remaining_amount,
         processing_notes |-> GenerateProcessingNotes(payment, matches, remaining_amount)]

----------------------------------------------------------------------------
(* process_payment, in two steps: the matches are computed and the result
   built, then the matches are applied.  The service is called from a
   coroutine and never awaits: no other call runs between its steps, only
   the clock moves. *)

\* the ids process_payment is called with: those drawn so far and one never drawn
PaySessionIds == 1..(next_sid + 1)

NoCall ==
    [session_id |-> 0, payment |-> <<>>, customer_invoices |-> <<>>, result |-> <<>>]

Running(op, args) == [op |-> op, args |-> args, outcome |-> "running", value |-> <<>>]

\* lines 140-177: the session check, the customer's open invoices, the
\* matches, the result
ProcessPayment(sid, payment) ==
    LET customer_invoices == GetCustomerInvoices(sample_invoices, payment.customer_id)
        found == FindPaymentMatches(sample_invoices, payment, customer_invoices)
    IN  /\ Len(processed_payments) < MaxPayments
        /\ sessions' = UpdateSessionStatus(sessions, sid, "running", NoData, now)
        /\ IF found.raised # ""
           THEN /\ ret' = Raised("process_payment", sid, found.raised)
                /\ UNCHANGED <<pc, call>>
           ELSE /\ call' = [session_id |-> sid,
                            payment |-> payment,
                            customer_invoices |-> customer_invoices,
                            result |-> BuildResult(payment, found.matches, now,
                                                   Len(processed_payments))]
                /\ pc' = "apply"
                /\ ret' = Running("process_payment", sid)

\* process_payment, its arguments being among the given
ProcessPaymentWith(ids, payments) ==
    /\ pc = "idle"
    /\ \E sid \in ids :
          IF ~GetSessionFound(sessions, sid, now)
          THEN /\ sessions' = GetSessionStore(sessions, sid, now)
               /\ ret' = Raised("process_payment", sid, "Invalid session")
               /\ UNCHANGED <<pc, call>>
          ELSE \E payment \in payments : ProcessPayment(sid, payment)
    /\ pre' = Snapshot
    /\ UNCHANGED <<now, next_sid, sample_invoices, processed_payments, wsvars>>

ProcessPaymentCall == ProcessPaymentWith(PaySessionIds, PaymentInputs)

\* lines 179-197: the matches are applied, the payment stored, the session
\* updated, the result returned
FinishPayment ==
    /\ pc = "apply"
    /\ LET applied == ApplyPaymentMatches(sample_invoices, call.result.matches)
           data == [payment_result |-> call.result,
                    updated_invoices |->
                        [k \in 1..Len(call.customer_invoices) |->
                            applied[call.customer_invoices[k]]]]
       IN  /\ sample_invoices' = applied
           /\ processed_payments' =
                  Append(processed_payments,
                         [payment |-> call.payment, result |-> call.result,
                          processed_at |-> now])
           /\ sessions' = UpdateSessionStatus(sessions, call.session_id,
                                              "completed", data, now)
           /\ ret' = Returned("process_payment", call.session_id, call.result)
    /\ pc' = "idle"
    /\ call' = NoCall
    /\ UNCHANGED <<now, next_sid, pre, wsvars>>

----------------------------------------------------------------------------
(* The realtime broadcaster: ConnectionManager, RealtimeDataSimulator and
   websocket_endpoint.  All coroutines run on one event loop: a step of the
   model is the code a coroutine runs between two awaits that suspend it. *)

MAX_CONNECTIONS == 3                \* 200 in the service
MAX_CONNECTIONS_PER_SESSION == 2    \* 5 in the service
MaxTasks == 2                       \* simulation tasks ever created

DEFAULT_TOTAL_RECORDS == 100

\* the connections the model opens, and the path each one is opened on:
\* /ws/{demo_type}/{session_id}
WebSockets == {"w1", "w2", "w3", "w4"}

Route(w) ==
    CASE w = "w1" -> [session_id |-> "s1", demo_type |-> "payment_processing"]
      [] w = "w2" -> [session_id |-> "s1", demo_type |-> "data_pipeline"]
      [] w = "w3" -> [session_id |-> "s1", demo_type |-> "sales_dashboard"]
      [] w = "w4" -> [session_id |-> "s2", demo_type |-> "collections_dashboard"]

\* d.get(k, default)
DictGet(d, k, default) == IF k \in DOMAIN d THEN d[k] ELSE default

NoneValue == "None"

\* json.dumps of an object: its members, one after the other
JsonDumps(obj) ==
    LET n == Cardinality(DOMAIN obj)
        order == CHOOSE f \in [1..n -> DOMAIN obj] :
                     \A i, j \in 1..n : f[i] = f[j] => i = j
    IN  [i \in 1..n |-> <<order[i], obj[order[i]]>>]

\* json.loads of an object: of members of one name the last one counts
JsonLoads(pairs) ==
    LET names == {pairs[i][1] : i \in 1..Len(pairs)}
        last(k) == CHOOSE i \in 1..Len(pairs) :
                       /\ pairs[i][1] = k
                       /\ \A j \in 1..Len(pairs) : pairs[j][1] = k => j <= i
    IN  [k \in names |-> pairs[last(k)][2]]

\* what a client sends: the text of a JSON object, or of a JSON array
ObjectFrame(obj) == [kind |-> "object", pairs |-> JsonDumps(obj)]
ArrayFrame == [kind |-> "array", pairs |-> <<>>]

ClientObjects(w) ==
    {[type |-> "stop_simulation"], [type |-> "ping"],
     [type |-> "unknown", data |-> "test"], [data |-> "test"]}
    \cup (IF Route(w).demo_type = "data_pipeline"
          THEN {[type |-> "start_simulation", total_records |-> 5]}
          ELSE {[type |-> "start_simulation"]})

ClientFrames(w) == {ObjectFrame(obj) : obj \in ClientObjects(w)} \cup {ArrayFrame}

(* ConnectionManager; m is the manager's state *)

SessionConnections(m, session_id) == DictGet(m.active_connections, session_id, {})

AtCapacity(m) == Cardinality(DOMAIN m.connection_data) >= MAX_CONNECTIONS

SessionFull(m, session_id) ==
    Cardinality(SessionConnections(m, session_id)) >= MAX_CONNECTIONS_PER_SESSION

\* connect, after the accept: lines 44-57
Register(m, websocket, session_id, demo_type) ==
    [active_connections |->
        [s \in DOMAIN m.active_connections \cup {session_id} |->
            IF s = session_id
            THEN SessionConnections(m, session_id) \cup {websocket}
            ELSE m.active_connections[s]],
     connection_data |->
        (websocket :> [session_id |-> session_id, demo_type |-> demo_type])
            @@ m.connection_data]

DisconnectUnpruned(m, websocket) ==
    IF websocket \notin DOMAIN m.connection_data THEN m
    ELSE LET session_id == m.connection_data[websocket].session_id
         IN  [active_connections |->
                 IF session_id \in DOMAIN m.active_connections
                 THEN [m.active_connections EXCEPT ![session_id] = @ \ {websocket}]
                 ELSE m.active_connections,
              connection_data |->
                 Restrict(m.connection_data, DOMAIN m.connection_data \ {websocket})]

Disconnect(m, websocket) ==
    IF websocket \notin DOMAIN m.connection_data THEN m
    ELSE LET session_id == m.connection_data[websocket].session_id
             rest == m.active_connections[session_id] \ {websocket}
         IN  [active_connections |->
                 IF session_id \in DOMAIN m.active_connections
                 THEN IF rest = {}
                      THEN Restrict(m.active_connections,
                                    DOMAIN m.active_connections \ {session_id})
                      ELSE [m.active_connections EXCEPT ![session_id] = rest]
                 ELSE m.active_connections,
              connection_data |->
                 Restrict(m.connection_data, DOMAIN m.connection_data \ {websocket})]

(* RealtimeDataSimulator; sim is the simulator's state, tk the tasks *)

PaymentSteps ==
    <<"validation", "matching", "scoring", "applying", "updating", "completed">>

\* _simulate_payment_processing: each step's in_progress, then its completed
PaymentEvents ==
    [i \in 1..(2 * Len(PaymentSteps)) |->
        [type |-> "payment_processing_update",
         step |-> PaymentSteps[(i + 1) \div 2],
         status |-> IF i % 2 = 1 THEN "in_progress" ELSE "completed"]]

PipelineStages ==
    << <<"extraction", 30>>, <<"transformation", 40>>, <<"validation", 20>>,
       <<"loading", 10>> >>

\* int((percentage / 100) * total_records)
StageRecords(percentage, total_records) == (percentage * total_records) \div 100

RECURSIVE Repeat(_, _)
Repeat(x, n) == IF n <= 0 THEN <<>> ELSE <<x>> \o Repeat(x, n - 1)

RECURSIVE StageEvents(_, _)
StageEvents(stages, total_records) ==
    IF stages = <<>> THEN <<>>
    ELSE Repeat([type |-> "pipeline_progress", step |-> Head(stages)[1],
                 status |-> "processing"],
                StageRecords(Head(stages)[2], total_records))
         \o StageEvents(Tail(stages), total_records)

\* _simulate_pipeline_processing: a progress event per record, then the
\* completion event
PipelineEvents(total_records) ==
    Append(StageEvents(PipelineStages, total_records),
           [type |-> "pipeline_progress", step |-> "completed",
            status |-> "completed"])

\* _simulate_dashboard_updates: the two events of one round of its loop
DashboardEvents ==
    <<[type |-> "dashboard_update", step |-> "kpi_update", status |-> ""],
      [type |-> "dashboard_update", step |-> "new_customer", status |-> ""]>>

TaskEvents(task) ==
    CASE task.kind = "payment_processing" -> PaymentEvents
      [] task.kind = "data_pipeline" -> PipelineEvents(task.total_records)
      [] task.kind = "sales_dashboard" -> DashboardEvents

\* asyncio.create_task(...): the coroutine has not run yet.  idx is the
\* event the task is at, copy and pending the connections of the broadcast
\* under way and those of them not yet sent to; last_sent is history: for
\* each client the last event of this task that it received
NewTask(session_id, kind, total_records) ==
    [session_id |-> session_id, kind |-> kind, total_records |-> total_records,
     state |-> "running", idx |-> 0, copy |-> {}, pending |-> {},
     last_sent |-> [w \in {} |-> 0]]

CanStartAlways(sim, session_id) == TRUE

\* lines 232, 242, 252: a start returns at once when the session has an entry
CanStart(sim, session_id) == session_id \notin DOMAIN sim.active_simulations

\* the start_*_simulation methods: the simulator and the tasks they leave
StartSimulation(sim, tk, session_id) ==
    IF CanStart(sim, session_id)
    THEN [active_simulations |-> (session_id :> (Len(tk) + 1)) @@ sim.active_simulations]
    ELSE sim

StartTasks(sim, tk, session_id, kind, total_records) ==
    IF CanStart(sim, session_id)
    THEN Append(tk, NewTask(session_id, kind, total_records))
    ELSE tk

\* stop_simulation: the simulator and the tasks it leaves; cancel() of a
\* task that is done does nothing
StopSimulation(sim, session_id) ==
    [active_simulations |->
        Restrict(sim.active_simulations, DOMAIN sim.active_simulations \ {session_id})]

\* a task that is done keeps no locals
Done(task, state) ==
    [task EXCEPT !.state = state, !.idx = 0, !.copy = {}, !.pending = {},
                 !.last_sent = [w \in {} |-> 0]]

StopTasksUncancelled(sim, tk, session_id) == tk

StopTasks(sim, tk, session_id) ==
    IF session_id \in DOMAIN sim.active_simulations
    THEN [tk EXCEPT ![sim.active_simulations[session_id]] =
                        IF @.state = "running" THEN Done(@, "cancelled") ELSE @]
    ELSE tk

(* websocket_endpoint, one coroutine per WebSocket, and the client at the
   other end: what it was sent first *)

NewWebSocket ==
    [pc |-> "new", close_code |-> 0, close_reason |-> "", first |-> ""]

\* the client receives a message
Delivered(wss, w, type) ==
    [wss EXCEPT ![w].first = IF @ = "" THEN type ELSE @]

\* connect, lines 33-42: the two ceilings, then the accept is awaited
Connect(w) ==
    /\ websockets[w].pc = "new"
    /\ websockets' =
          IF AtCapacity(connection_manager)
          THEN [websockets EXCEPT ![w].pc = "rejected", ![w].close_code = 1013,
                                  ![w].close_reason = "Server at capacity"]
          ELSE IF SessionFull(connection_manager, Route(w).session_id)
          THEN [websockets EXCEPT ![w].pc = "rejected", ![w].close_code = 1013,
                                  ![w].close_reason = "Too many connections for session"]
          ELSE [websockets EXCEPT ![w].pc = "accept"]
    /\ UNCHANGED <<now, sessions, next_sid, sample_invoices, processed_payments,
                   pc, call, ret, pre, connection_manager, realtime_simulator, tasks>>

\* connect, lines 44-70: the accept has returned; the connection is
\* registered and its confirmation sent, and a failed send disconnects it
Accept(w) ==
    /\ websockets[w].pc = "accept"
    /\ LET registered == Register(connection_manager, w, Route(w).session_id,
                                  Route(w).demo_type)
       IN  \E sent \in BOOLEAN :
              IF sent
              THEN /\ connection_manager' = registered
                   /\ websockets' = Delivered([websockets EXCEPT ![w].pc = "receive"],
                                              w, "connection_established")
              ELSE /\ connection_manager' = Disconnect(registered, w)
                   /\ websockets' = [websockets EXCEPT ![w].pc = "receive"]
    /\ UNCHANGED <<now, sessions, next_sid, sample_invoices, processed_payments,
                   pc, call, ret, pre, realtime_simulator, tasks>>

\* the accept raises: connect is awaited outside the try of the endpoint
AcceptFails(w) ==
    /\ websockets[w].pc = "accept"
    /\ websockets' = [websockets EXCEPT ![w].pc = "done"]
    /\ UNCHANGED <<now, sessions, next_sid, sample_invoices, processed_payments,
                   pc, call, ret, pre, connection_manager, realtime_simulator, tasks>>

CleanupLastOnly(w) ==
    LET left == Disconnect(connection_manager, w)
        last == SessionConnections(left, Route(w).session_id) = {}
    IN  /\ connection_manager' = left
        /\ realtime_simulator' =
               IF last THEN StopSimulation(realtime_simulator, Route(w).session_id)
               ELSE realtime_simulator
        /\ tasks' = IF last THEN StopTasks(realtime_simulator, tasks, Route(w).session_id)
                    ELSE tasks
        /\ websockets' = [websockets EXCEPT ![w].pc = "done"]

\* lines 403-409: both handlers disconnect and stop the session's simulation
Cleanup(w) ==
    /\ connection_manager' = Disconnect(connection_manager, w)
    /\ realtime_simulator' = StopSimulation(realtime_simulator, Route(w).session_id)
    /\ tasks' = StopTasks(realtime_simulator, tasks, Route(w).session_id)
    /\ websockets' = [websockets EXCEPT ![w].pc = "done"]

\* a connection closed by connect: receive_text raises at once
RejectedCleanup(w) ==
    /\ websockets[w].pc = "rejected"
    /\ Cleanup(w)
    /\ UNCHANGED <<now, sessions, next_sid, sample_invoices, processed_payments,
                   pc, call, ret, pre>>

\* the client goes away: receive_text raises WebSocketDisconnect
ClientDisconnect(w) ==
    /\ websockets[w].pc = "receive"
    /\ Cleanup(w)
    /\ UNCHANGED <<now, sessions, next_sid, sample_invoices, processed_payments,
                   pc, call, ret, pre>>

SimulationKinds == {"payment_processing", "data_pipeline", "sales_dashboard"}

\* lines 378-385
HandleStart(w, message) ==
    LET session_id == Route(w).session_id
        kind == Route(w).demo_type
        total_records == IF kind = "data_pipeline"
                         THEN DictGet(message, "total_records", DEFAULT_TOTAL_RECORDS)
                         ELSE 0
    IN  IF kind \in SimulationKinds
        THEN /\ CanStart(realtime_simulator, session_id) => Len(tasks) < MaxTasks
             /\ realtime_simulator' = StartSimulation(realtime_simulator, tasks, session_id)
             /\ tasks' = StartTasks(realtime_simulator, tasks, session_id, kind,
                                    total_records)
        ELSE UNCHANGED <<realtime_simulator, tasks>>

\* lines 390-401: send_to_connection; the reply reaches the client, or the
\* send raises and the connection is disconnected
HandleReply(w, message, reply) ==
    \E sent \in BOOLEAN :
        IF sent
        THEN /\ websockets' = Delivered(websockets, w, reply.type)
             /\ ret' = Returned("websocket_message",
                                [websocket |-> w, message |-> message],
                                <<JsonLoads(JsonDumps(reply))>>)
             /\ UNCHANGED connection_manager
        ELSE /\ connection_manager' = Disconnect(connection_manager, w)
             /\ ret' = Returned("websocket_message",
                                [websocket |-> w, message |-> message], <<>>)
             /\ UNCHANGED websockets

\* lines 391-394; the time of the event loop is the model's clock
PongReply == [type |-> "pong", timestamp |-> now]

EchoReplyTypeOnly(message) ==
    [type |-> "echo",
     original_message |-> [type |-> DictGet(message, "type", NoneValue)]]

\* lines 398-401
EchoReply(message) == [type |-> "echo", original_message |-> message]

\* lines 372-401: one message of the client, handled
Receive(w, objects) ==
    /\ websockets[w].pc = "receive"
    /\ \E obj \in objects :
          LET message == JsonLoads(ObjectFrame(obj).pairs)
              message_type == DictGet(message, "type", NoneValue)
          IN  IF message_type = "start_simulation"
              THEN /\ HandleStart(w, message)
                   /\ ret' = Returned("websocket_message",
                                      [websocket |-> w, message |-> obj], <<>>)
                   /\ UNCHANGED <<connection_manager, websockets>>
              ELSE IF message_type = "stop_simulation"
              THEN /\ realtime_simulator' =
                          StopSimulation(realtime_simulator, Route(w).session_id)
                   /\ tasks' = StopTasks(realtime_simulator, tasks, Route(w).session_id)
                   /\ ret' = Returned("websocket_message",
                                      [websocket |-> w, message |-> obj], <<>>)
                   /\ UNCHANGED <<connection_manager, websockets>>
              ELSE IF message_type = "ping"
              THEN /\ HandleReply(w, obj, PongReply)
                   /\ UNCHANGED <<realtime_simulator, tasks>>
              ELSE /\ HandleReply(w, obj, EchoReply(message))
                   /\ UNCHANGED <<realtime_simulator, tasks>>
    /\ UNCHANGED <<now, sessions, next_sid, sample_invoices, processed_payments,
                   pc, call, pre>>

\* a frame that is no JSON object: message.get raises, line 406 handles it
ReceiveArray(w) ==
    /\ websockets[w].pc = "receive"
    /\ ArrayFrame \in ClientFrames(w)
    /\ Cleanup(w)
    /\ ret' = Raised("websocket_message", [websocket |-> w, message |-> ArrayFrame],
                     "AttributeError")
    /\ UNCHANGED <<now, sessions, next_sid, sample_invoices, processed_payments,
                   pc, call, pre>>

(* the simulation tasks *)

IsLastEvent(task) ==
    task.kind # "sales_dashboard" /\ task.idx = Len(TaskEvents(task))

NextEventSkipping(task) == task.idx + 2

\* the event after event idx; the dashboard loops
NextEvent(task) ==
    IF task.kind = "sales_dashboard"
    THEN (task.idx % Len(DashboardEvents)) + 1
    ELSE task.idx + 1

SendToConnectionAborting(t, c, tk) ==
    \E sent \in BOOLEAN :
        IF sent
        THEN /\ websockets[c].pc = "receive"
             /\ websockets' = Delivered(websockets, c,
                                        TaskEvents(tk[t])[tk[t].idx].type)
             /\ tasks' = [tk EXCEPT ![t].pending = @ \ {c},
                                    ![t].last_sent = (c :> tk[t].idx) @@ @]
             /\ UNCHANGED connection_manager
        ELSE /\ connection_manager' = Disconnect(connection_manager, c)
             /\ tasks' = [tk EXCEPT ![t].pending = {}]
             /\ UNCHANGED websockets

\* send_to_connection in the loop of send_to_session, lines 106-107: the
\* event task t is at is sent to connection c; a send to a client that is
\* gone raises, any send may, and a send that raises disconnects c
SendToConnection(t, c, tk) ==
    \E sent \in BOOLEAN :
        IF sent
        THEN /\ websockets[c].pc = "receive"
             /\ websockets' = Delivered(websockets, c,
                                        TaskEvents(tk[t])[tk[t].idx].type)
             /\ tasks' = [tk EXCEPT ![t].pending = @ \ {c},
                                    ![t].last_sent = (c :> tk[t].idx) @@ @]
             /\ UNCHANGED connection_manager
        ELSE /\ connection_manager' = Disconnect(connection_manager, c)
             /\ tasks' = [tk EXCEPT ![t].pending = @ \ {c}]
             /\ UNCHANGED websockets

\* the task resumes and goes on to its next event: send_to_session copies
\* the session's connections (104) and sends to the first of them
TaskEmit(t) ==
    /\ t \in 1..Len(tasks)
    /\ tasks[t].state = "running"
    /\ tasks[t].pending = {}
    /\ ~IsLastEvent(tasks[t])
    /\ LET connections == SessionConnections(connection_manager, tasks[t].session_id)
           emitting == [tasks EXCEPT ![t].idx = NextEvent(tasks[t]),
                                     ![t].copy = connections,
                                     ![t].pending = connections]
       IN  IF connections = {}
           THEN /\ tasks' = emitting
                /\ UNCHANGED <<connection_manager, websockets>>
           ELSE \E c \in connections : SendToConnection(t, c, emitting)
    /\ UNCHANGED <<now, sessions, next_sid, sample_invoices, processed_payments,
                   pc, call, ret, pre, realtime_simulator>>

\* the send has returned: the event is sent to the next connection of the copy
TaskSend(t) ==
    /\ t \in 1..Len(tasks)
    /\ tasks[t].state = "running"
    /\ \E c \in tasks[t].pending : SendToConnection(t, c, tasks)
    /\ UNCHANGED <<now, sessions, next_sid, sample_invoices, processed_payments,
                   pc, call, ret, pre, realtime_simulator>>

\* the coroutine returns after its last event
TaskFinish(t) ==
    /\ t \in 1..Len(tasks)
    /\ tasks[t].state = "running"
    /\ tasks[t].pending = {}
    /\ IsLastEvent(tasks[t])
    /\ tasks' = [tasks EXCEPT ![t] = Done(@, "finished")]
    /\ UNCHANGED <<now, sessions, next_sid, sample_invoices, processed_payments,
                   pc, call, ret, pre, connection_manager, realtime_simulator,
                   websockets>>

----------------------------------------------------------------------------
(* ConnectionManager.broadcast_to_all and broadcast_to_demo_type: a
   coroutine that iterates connection_data itself, not a copy, and awaits a
   send for each connection; pc and call hold its position and its locals.
   The model does not keep the order of registration, so the iterator may
   yield the keys in any order. *)

BroadcastData == [type |-> "announcement"]

BroadcastDemoTypes == {"payment_processing", "collections_dashboard"}

\* line 113: the test on the metadata; broadcast_to_all has none
Targeted(m, op, demo_type, w) ==
    op = "broadcast_to_all" \/ m.connection_data[w].demo_type = demo_type

\* the iterator over connection_data as the for statement creates it: the
\* size of the dict, its keys, and no key yielded yet
NewBroadcast(m, op, demo_type) ==
    [op |-> op, demo_type |-> demo_type,
     used |-> Cardinality(DOMAIN m.connection_data),
     keys |-> DOMAIN m.connection_data,
     targets |-> {w \in DOMAIN m.connection_data : Targeted(m, op, demo_type, w)},
     visited |-> {}, sent |-> {}, failed |-> {}]

\* how the broadcast b ended, for its caller
BroadcastOutcome(b, outcome) ==
    [op |-> b.op,
     args |-> [demo_type |-> b.demo_type, targets |-> b.targets],
     outcome |-> outcome,
     value |-> [sent |-> b.sent, failed |-> b.failed]]

BroadcastEnds(b, outcome) ==
    /\ ret' = BroadcastOutcome(b, outcome)
    /\ pc' = "idle"
    /\ call' = NoCall
    /\ UNCHANGED <<connection_manager, websockets>>

\* lines 112-114 and 119-120: the iterator's next, which raises when the
\* dict is of another size than at its creation and may raise when its
\* keys are others; then the send to the next targeted connection is
\* awaited, and a send that raises disconnects the connection (96-99)
BroadcastIterate(b) ==
    LET m == connection_manager
        keys == DOMAIN m.connection_data
        remaining == {w \in keys \ b.visited : Targeted(m, b.op, b.demo_type, w)}
    IN  IF Cardinality(keys) # b.used
        THEN BroadcastEnds(b, "RuntimeError")
        ELSE \/ /\ keys # b.keys
                /\ BroadcastEnds(b, "RuntimeError")
             \/ /\ remaining = {}
                /\ BroadcastEnds(b, "ok")
             \/ /\ \E w \in remaining, sent \in BOOLEAN :
                      IF sent
                      THEN /\ websockets[w].pc = "receive"
                           /\ websockets' = Delivered(websockets, w, BroadcastData.type)
                           /\ call' = [b EXCEPT !.visited = @ \cup {w},
                                                !.sent = @ \cup {w}]
                           /\ UNCHANGED connection_manager
                      ELSE /\ connection_manager' = Disconnect(m, w)
                           /\ call' = [b EXCEPT !.visited = @ \cup {w},
                                                !.failed = @ \cup {w}]
                           /\ UNCHANGED websockets
                /\ pc' = "broadcast"
                /\ ret' = Running(b.op, [demo_type |-> b.demo_type,
                                         targets |-> b.targets])

\* broadcast_to_all(data) is called: up to its first await
BroadcastToAll ==
    /\ pc = "idle"
    /\ BroadcastIterate(NewBroadcast(connection_manager, "broadcast_to_all", NoneValue))
    /\ UNCHANGED <<now, sessions, next_sid, sample_invoices, processed_payments,
                   pre, realtime_simulator, tasks>>

\* broadcast_to_demo_type(demo_type, data) is called: up to its first await
BroadcastToDemoType ==
    /\ pc = "idle"
    /\ \E demo_type \in BroadcastDemoTypes :
          BroadcastIterate(NewBroadcast(connection_manager, "broadcast_to_demo_type",
                                        demo_type))
    /\ UNCHANGED <<now, sessions, next_sid, sample_invoices, processed_payments,
                   pre, realtime_simulator, tasks>>

\* the send has returned: the loop goes on
BroadcastNext ==
    /\ pc = "broadcast"
    /\ BroadcastIterate(call)
    /\ UNCHANGED <<now, sessions, next_sid, sample_invoices, processed_payments,
                   pre, realtime_simulator, tasks>>

----------------------------------------------------------------------------
(* DataPipelineService.extract_data, in two steps like process_payment: the
   session check, the records and the result; then the session update.  The
   service keeps its sessions in a store of its own. *)

MIN_RECORD_COUNT == 50
MAX_RECORD_COUNT == 500
MIN_PROCESSING_TIME_MS == 1500
MAX_PROCESSING_TIME_MS == 5000
ERROR_TYPES == 6
SAMPLE_RECORDS == 5

\* random.randint(50, 500): the volumes the model draws, around the steps
\* of len(records) // 20
RecordCounts == {MIN_RECORD_COUNT, 59, 60, MAX_RECORD_COUNT}

FailedCountsAnyNumber(record_count) == 0..(record_count + 1)

\* random.randint(0, max(1, len(records) // 20))
FailedCounts(record_count) == 0..Max(1, record_count \div 20)

\* round(x / y, 3) in thousandths, for the quotients extract_data forms
Round3(x, y) == ((2000 * x) + y) \div (2 * y)

\* lines 327-342; of the errors the model keeps how many are drawn, of the
\* processing time its two ends
PipelineResult(record_count, failed_count, time_ms, t) ==
    LET processed_count == record_count
    IN  [batch_id |-> <<"BATCH", t>>,
         total_records |-> record_count,
         processed_records |-> processed_count - failed_count,
         failed_records |-> failed_count,
         processing_time_ms |-> time_ms,
         errors |-> Min(failed_count, ERROR_TYPES),
         success_rate |-> IF processed_count > 0
                          THEN Round3(processed_count - failed_count, processed_count)
                          ELSE 0]

\* extract_data, its argument and the volumes and processing times drawn
\* being among the given
ExtractData(ids, record_counts, times_ms) ==
    /\ pc = "idle"
    /\ \E sid \in ids :
          IF ~GetSessionFound(sessions, sid, now)
          THEN /\ sessions' = GetSessionStore(sessions, sid, now)
               /\ ret' = Raised("extract_data", sid, "Invalid session")
               /\ UNCHANGED <<pc, call>>
          ELSE \E record_count \in record_counts, time_ms \in times_ms :
                  \E failed_count \in FailedCounts(record_count) :
                     /\ sessions' = UpdateSessionStatus(sessions, sid, "running",
                                                        NoData, now)
                     /\ call' = [NoCall EXCEPT
                                   !.session_id = sid,
                                   !.result = PipelineResult(record_count, failed_count,
                                                             time_ms, now)]
                     /\ pc' = "extract"
                     /\ ret' = Running("extract_data", sid)
    /\ pre' = Snapshot
    /\ UNCHANGED <<now, next_sid, sample_invoices, processed_payments, wsvars>>

ExtractDataCall ==
    ExtractData(1..(next_sid + 1), RecordCounts,
                {MIN_PROCESSING_TIME_MS, MAX_PROCESSING_TIME_MS})

\* lines 344-356
FinishExtract ==
    /\ pc = "extract"
    /\ sessions' = UpdateSessionStatus(
                       sessions, call.session_id, "completed",
                       [extraction_result |-> call.result,
                        sample_records |->
                            Indices(Min(SAMPLE_RECORDS, call.result.total_records))],
                       now)
    /\ ret' = Returned("extract_data", call.session_id, call.result)
    /\ pc' = "idle"
    /\ call' = NoCall
    /\ UNCHANGED <<now, next_sid, sample_invoices, processed_payments, pre, wsvars>>

----------------------------------------------------------------------------
(* POST /demos/api/payment-processing/session: the route handler
   create_payment_session behind the application's rate limiter.  One client
   address sends the requests. *)

MaxRequests == 11       \* requests of the client within one minute

\* Limiter(key_func=get_remote_address): no default limits
DefaultLimits == {}

\* the requests per minute the routes are decorated with: the handler
\* carries the route decorator only
RouteLimits == [create_payment_session |-> {}]

\* the limiter refuses a request that is past a limit of its route
RateLimitExceeded(route, count) ==
    \E limit \in DefaultLimits \cup RouteLimits[route] : count > limit

HttpResponse(status_code, session_id) ==
    [status_code |-> status_code, session_id |-> session_id]

\* the request's place among the client's requests of the running minute
RequestCount ==
    IF ret.op = "POST /demos/api/payment-processing/session"
       /\ ret.args.minute = now \div 60
    THEN ret.args.request + 1
    ELSE 1

\* lines 72-100: create_session, and any exception answered with status 500
CreatePaymentSessionRequest ==
    /\ pc = "idle"
    /\ RequestCount <= MaxRequests
    /\ LET args == [minute |-> now \div 60, request |-> RequestCount]
           cleaned == CleanupExpiredSessions(sessions, now)
           sid == next_sid + 1
       IN  IF RateLimitExceeded("create_payment_session", RequestCount)
           THEN /\ ret' = Returned("POST /demos/api/payment-processing/session",
                                   args, HttpResponse(429, 0))
                /\ UNCHANGED <<sessions, next_sid>>
           ELSE IF Cardinality(DOMAIN cleaned) >= MAX_SESSIONS
           THEN /\ sessions' = cleaned
                /\ next_sid' = next_sid
                /\ ret' = Returned("POST /demos/api/payment-processing/session",
                                   args, HttpResponse(500, 0))
           ELSE /\ sessions' = (sid :> NewSession("payment_processing", now)) @@ cleaned
                /\ next_sid' = sid
                /\ ret' = Returned("POST /demos/api/payment-processing/session",
                                   args, HttpResponse(200, sid))
    /\ pre' = Snapshot
    /\ UNCHANGED <<now, sample_invoices, processed_payments, pc, call, wsvars>>

InitWs ==
    /\ connection_manager =
          [active_connections |-> [s \in {} |-> {}],
           connection_data |-> [w \in {} |-> 0]]
    /\ realtime_simulator = [active_simulations |-> [s \in {} |-> 0]]
    /\ tasks = <<>>
    /\ websockets = [w \in WebSockets |-> NewWebSocket]

----------------------------------------------------------------------------
(* Specifications *)

Init ==
    /\ now = 0
    /\ sessions = [sid \in {} |-> 0]
    /\ next_sid = 0
    /\ sample_invoices \in SampleInvoiceLists
    /\ processed_payments = <<>>
    /\ pc = "idle"
    /\ call = NoCall
    /\ ret = [op |-> "init", args |-> <<>>, outcome |-> "ok", value |-> <<>>]
    /\ pre = [sessions |-> [sid \in {} |-> 0], sample_invoices |-> sample_invoices,
              processed_payments |-> <<>>, now |-> 0]
    /\ InitWs

\* a client of the payment demo asks for a session when it holds no live one
CreatePaymentSession ==
    /\ DOMAIN CleanupExpiredSessions(sessions, now) = {}
    /\ CreateSession(MaxSessionIds)

\* the payment engine, with the sessions it needs
Next ==
    \/ CreatePaymentSession
    \/ Tick(SESSION_TTL_SECONDS + 1)
    \/ ProcessPaymentCall
    \/ FinishPayment

Spec == Init /\ [][Next]_vars

\* the session store alone
NextSessions ==
    \/ CreateSession(MaxSessionIds)
    \/ GetSessionCall
    \/ Tick(1)
    \/ Tick(SESSION_TTL_SECONDS)

\* a DemoServiceBase on its own holds no invoices
InitSessions ==
    /\ now = 0
    /\ sessions = [sid \in {} |-> 0]
    /\ next_sid = 0
    /\ sample_invoices = <<>>
    /\ processed_payments = <<>>
    /\ pc = "idle"
    /\ call = NoCall
    /\ ret = [op |-> "init", args |-> <<>>, outcome |-> "ok", value |-> <<>>]
    /\ pre = [sessions |-> [sid \in {} |-> 0], sample_invoices |-> <<>>,
              processed_payments |-> <<>>, now |-> 0]
    /\ InitWs

SpecSessions == InitSessions /\ [][NextSessions]_vars

\* the session store as its callers update it
NextStatus ==
    \/ CreateSession(MaxStatusIds)
    \/ UpdateSessionStatusCall
    \/ Tick(SESSION_TTL_SECONDS + 1)

SpecStatus == InitSessions /\ [][NextStatus]_vars

\* a client creates payment sessions over HTTP
NextRequests ==
    \/ CreatePaymentSessionRequest
    \/ Tick(1)
    \/ Tick(SESSION_TTL_SECONDS)

SpecRequests == Init /\ [][NextRequests]_vars

\* a session store under every operation that reads or writes a session:
\* sessions are created, looked up and left to expire as in the session
\* store runs, and the first of them is worked with, with one input for
\* each operation
LifetimePayment ==
    [customer_id |-> "CUST001", amount |-> Dollars(5000),
     payment_method |-> "ach", reference |-> Chars_REF_12345]

NextLifetime ==
    \/ CreateSession(MaxSessionIds)
    \/ GetSessionCall
    \/ UpdateSessionStatusWith({1}, {"running"}, {[progress |-> 1]})
    \/ ProcessPaymentWith({1}, {LifetimePayment})
    \/ FinishPayment
    \/ ExtractData({1}, {MIN_RECORD_COUNT}, {MIN_PROCESSING_TIME_MS})
    \/ FinishExtract
    \/ Tick(1)
    \/ Tick(SESSION_TTL_SECONDS)

SpecLifetime == InitSessions /\ [][NextLifetime]_vars

\* the data pipeline service and its sessions
NextPipeline ==
    \/ CreateSession(MaxPipelineIds)
    \/ Tick(SESSION_TTL_SECONDS + 1)
    \/ ExtractDataCall
    \/ FinishExtract

SpecPipeline == InitSessions /\ [][NextPipeline]_vars

\* _calculate_match_confidence on its own, as its test calls it: a payment
\* and an open invoice.  The invoice is the second of the first customer,
\* INV-2024-0002; the service's own invoices are at most 90 days
\* outstanding, an Invoice can be older
ConfidenceAmounts ==
    {Dollars(4000), Dollars(4750), Dollars(4760), Dollars(5000), Dollars(5000) + 1,
     Dollars(5000) + 2, Dollars(5200), Dollars(5250), Dollars(10000), Dollars(30000)}

ConfidencePayments ==
    [customer_id : {"CUST001"}, amount : ConfidenceAmounts,
     payment_method : {"wire"}, reference : {Chars_REF_12345, Chars_PAY_2024_0002}]

ConfidenceInvoices ==
    {NewInvoice(0, 1, amount, age) :
        amount \in {Dollars(5000), Dollars(10000)}, age \in {75, 120, 121, 150}}

InitConfidence ==
    /\ now = 0
    /\ sessions = [sid \in {} |-> 0]
    /\ next_sid = 0
    /\ sample_invoices \in {<<invoice>> : invoice \in ConfidenceInvoices}
    /\ processed_payments = <<>>
    /\ pc = "idle"
    /\ call \in {[NoCall EXCEPT !.payment = payment] : payment \in ConfidencePayments}
    /\ ret = [op |-> "init", args |-> <<>>, outcome |-> "ok", value |-> <<>>]
    /\ pre = [sessions |-> [sid \in {} |-> 0], sample_invoices |-> sample_invoices,
              processed_payments |-> <<>>, now |-> 0]
    /\ InitWs

CalculateMatchConfidenceCall ==
    /\ ret.op = "init"
    /\ ret' = IF ConfidenceRaises(call.payment, sample_invoices[1])
              THEN Raised("_calculate_match_confidence",
                          [payment |-> call.payment, invoice |-> sample_invoices[1]],
                          "ZeroDivisionError")
              ELSE Returned("_calculate_match_confidence",
                            [payment |-> call.payment, invoice |-> sample_invoices[1]],
                            CalculateMatchConfidence(call.payment, sample_invoices[1]))
    /\ UNCHANGED <<now, sessions, next_sid, sample_invoices, processed_payments,
                   pc, call, pre, wsvars>>

SpecConfidence == InitConfidence /\ [][CalculateMatchConfidenceCall]_vars

\* the connection manager: clients connect, talk and leave; no simulation
\* is started
NextConnections ==
    \/ \E w \in WebSockets : Connect(w)
    \/ \E w \in WebSockets : Accept(w)
    \/ \E w \in WebSockets : AcceptFails(w)
    \/ \E w \in WebSockets : RejectedCleanup(w)
    \/ \E w \in WebSockets : Receive(w, {[type |-> "ping"], [data |-> "test"]})
    \/ \E w \in WebSockets : ReceiveArray(w)
    \/ \E w \in WebSockets : ClientDisconnect(w)

SpecConnections == InitSessions /\ [][NextConnections]_vars

\* the clients that take part in the simulation runs, and what they send
SimulationSockets == {"w1", "w2"}

SimulationObjects(w) ==
    {obj \in ClientObjects(w) :
        DictGet(obj, "type", NoneValue) \in {"start_simulation", "stop_simulation"}}

\* the simulator: clients connect, start and stop simulations and leave,
\* the simulation tasks run
NextSimulations ==
    \/ \E w \in SimulationSockets : Connect(w)
    \/ \E w \in SimulationSockets : Accept(w)
    \/ \E w \in SimulationSockets : Receive(w, SimulationObjects(w))
    \/ \E w \in SimulationSockets : ClientDisconnect(w)
    \/ \E t \in 1..MaxTasks : TaskEmit(t)
    \/ \E t \in 1..MaxTasks : TaskSend(t)
    \/ \E t \in 1..MaxTasks : TaskFinish(t)

SpecSimulations == InitSessions /\ [][NextSimulations]_vars

\* a step of a simulation task
TaskStep == \E t \in 1..MaxTasks : TaskEmit(t) \/ TaskSend(t) \/ TaskFinish(t)

\* the event loop runs every task that is ready; clients do as they please
SpecSimulationsFair == SpecSimulations /\ WF_vars(TaskStep)

\* the handlers of one session: three clients of session s1, of which the
\* session admits two, connect, start and stop simulations, send frames
\* that make the handler raise, and leave
HandlerSockets == {"w1", "w2", "w3"}

NextHandlers ==
    \/ \E w \in HandlerSockets : Connect(w)
    \/ \E w \in HandlerSockets : Accept(w)
    \/ \E w \in HandlerSockets : AcceptFails(w)
    \/ \E w \in HandlerSockets : RejectedCleanup(w)
    \/ \E w \in HandlerSockets : Receive(w, SimulationObjects(w))
    \/ \E w \in HandlerSockets : ReceiveArray(w)
    \/ \E w \in HandlerSockets : ClientDisconnect(w)
    \/ \E t \in 1..MaxTasks : TaskEmit(t)
    \/ \E t \in 1..MaxTasks : TaskSend(t)
    \/ \E t \in 1..MaxTasks : TaskFinish(t)

SpecHandlers == InitSessions /\ [][NextHandlers]_vars

\* broadcasts: clients of two sessions and three demos connect and leave
\* while the manager broadcasts
BroadcastSockets == {"w1", "w2", "w4"}

NextBroadcast ==
    \/ \E w \in BroadcastSockets : Connect(w)
    \/ \E w \in BroadcastSockets : Accept(w)
    \/ \E w \in BroadcastSockets : ClientDisconnect(w)
    \/ BroadcastToAll
    \/ BroadcastToDemoType
    \/ BroadcastNext

SpecBroadcast == InitSessions /\ [][NextBroadcast]_vars

\* the message protocol of the endpoint: a client of a demo with a
\* simulation and a client of one without send every kind of frame; each
\* is alone on its session, so a broadcast is over with its first send
ProtocolSockets == {"w1", "w4"}

NextProtocol ==
    \/ \E w \in ProtocolSockets : Connect(w)
    \/ \E w \in ProtocolSockets : Accept(w)
    \/ \E w \in ProtocolSockets : AcceptFails(w)
    \/ \E w \in ProtocolSockets : Receive(w, ClientObjects(w))
    \/ \E w \in ProtocolSockets : ReceiveArray(w)
    \/ \E w \in ProtocolSockets : ClientDisconnect(w)
    \/ \E t \in 1..MaxTasks : TaskEmit(t)
    \/ \E t \in 1..MaxTasks : TaskFinish(t)

SpecProtocol == InitSessions /\ [][NextProtocol]_vars

----------------------------------------------------------------------------
(* What the claims speak of *)

\* process_payment has returned its result and nothing was called since
PaymentReturned == pc = "idle" /\ ret.op = "process_payment" /\ ret.outcome = "ok"

\* the payment of that call, its customer's invoices, the invoice of a match
LastPayment == processed_payments[Len(processed_payments)].payment

InvoicesOf(invs, customer_id) ==
    {k \in 1..Len(invs) : invs[k].customer_id = customer_id}

OpenInvoicesOf(invs, customer_id) ==
    {k \in InvoicesOf(invs, customer_id) : invs[k].balance > 0}

InvoiceOf(match) ==
    CHOOSE k \in 1..Len(sample_invoices) :
        sample_invoices[k].invoice_id = match.invoice_id

AppliedTo(matches, invoice_id) ==
    SumSeq([k \in 1..Len(matches) |->
               IF matches[k].invoice_id = invoice_id
               THEN matches[k].amount_applied ELSE 0])

\* the sum of the amounts applied, as a number
SumApplied(matches) ==
    SumSeq([k \in 1..Len(matches) |-> matches[k].amount_applied])

\* a session of the store is live at time t: stored, and no older than the TTL
LiveAt(ss, sid, t) ==
    sid \in DOMAIN ss /\ t - ss[sid].created_at <= SESSION_TTL_SECONDS

----------------------------------------------------------------------------
\* C1: whenever process_payment has returned, the amounts applied by its
\* matches sum to at most the payment amount, and the remaining amount it
\* returns is the payment amount minus that sum, and is not negative.
C1_AppliedWithinPayment ==
    PaymentReturned =>
        LET total == SumApplied(ret.value.matches)
        IN  /\ total <= LastPayment.amount
            /\ ret.value.remaining_amount = LastPayment.amount - total
            /\ ret.value.remaining_amount >= 0

\* C2: in every state, every invoice's balance is at least zero.
C2_BalanceNeverNegative ==
    \A k \in 1..Len(sample_invoices) : sample_invoices[k].balance >= 0

\* a payment has brought an invoice to zero and left another partly paid
C2_Witness ==
    /\ PaymentReturned
    /\ \E k, j \in 1..Len(sample_invoices) :
          /\ sample_invoices[k].balance = 0
          /\ pre.sample_invoices[k].balance > 0
          /\ sample_invoices[j].balance > 0
          /\ sample_invoices[j].balance < pre.sample_invoices[j].balance

\* C3: while the call has computed its matches and not yet applied them the
\* invoices are as they were when the call began, and once it has returned
\* every invoice's balance is its balance before the call minus the amount
\* the call's matches applied to it (once, not twice; minus as floats
\* subtract); nothing else of an invoice changes.
C3_AppliedOnceAfterMatching ==
    /\ pc = "apply" => sample_invoices = pre.sample_invoices
    /\ PaymentReturned =>
          /\ Len(sample_invoices) = Len(pre.sample_invoices)
          /\ \A k \in 1..Len(sample_invoices) :
                sample_invoices[k] =
                    [pre.sample_invoices[k] EXCEPT
                        !.balance = FSub(@, AppliedTo(ret.value.matches,
                                                      pre.sample_invoices[k].invoice_id))]
          /\ \A m, n \in 1..Len(ret.value.matches) :
                ret.value.matches[m].invoice_id = ret.value.matches[n].invoice_id
                    => m = n

\* a call that matched an invoice has returned
C3_Witness ==
    /\ PaymentReturned
    /\ Len(ret.value.matches) >= 1
    /\ sample_invoices # pre.sample_invoices

\* the case of C4: the customer's only open invoice had a balance of
\* 10000.00 and the payment was 4000.00
C4_Case ==
    /\ PaymentReturned
    /\ LastPayment.amount = Dollars(4000)
    /\ \E k \in 1..Len(sample_invoices) :
          /\ OpenInvoicesOf(pre.sample_invoices, LastPayment.customer_id) = {k}
          /\ pre.sample_invoices[k].balance = Dollars(10000)

C4_Outcome(status) ==
    LET k == CHOOSE j \in 1..Len(sample_invoices) :
                 OpenInvoicesOf(pre.sample_invoices, LastPayment.customer_id) = {j}
    IN  /\ Len(ret.value.matches) = 1
        /\ ret.value.matches[1].invoice_id = sample_invoices[k].invoice_id
        /\ ret.value.matches[1].amount_applied = Dollars(4000)
        /\ ret.value.matches[1].match_type = "partial"
        /\ ret.value.status = status
        /\ ret.value.remaining_amount = 0
        /\ sample_invoices[k].balance = Dollars(6000)

\* C4 as claimed: 4000.00 paid on a sole open invoice of 10000.00 gives one
\* partial match of 4000.00, overall status partial, remaining amount 0.00
\* and an invoice balance of 6000.00.
C4_AsClaimed == C4_Case => C4_Outcome("partial")

\* C4, amended: 4000.00 paid on a sole open invoice of 10000.00 gives one
\* partial match of 4000.00, overall status matched (the remaining amount
\* is zero), remaining amount 0.00 and an invoice balance of 6000.00.
C4_PartialMatchIsMatched == C4_Case => C4_Outcome("matched")

C4_Witness == C4_Case

\* C5: the overall status is matched exactly when the remaining amount is
\* zero, partial exactly when the remaining amount is positive and some
\* amount was applied, exception exactly when nothing was applied; it is
\* one of the three.
C5_StatusByRemaining ==
    PaymentReturned =>
        LET total == SumApplied(ret.value.matches)
            remaining == ret.value.remaining_amount
            status == ret.value.status
        IN  /\ status \in {"matched", "partial", "exception"}
            /\ status = "matched" <=> remaining = 0
            /\ status = "partial" <=> (remaining > 0 /\ total > 0)
            /\ status = "exception" <=> total = 0

\* a payment larger than all the customer owes: partly applied
C5_Witness ==
    /\ PaymentReturned
    /\ ret.value.status = "partial"
    /\ ret.value.remaining_amount > 0
    /\ Len(ret.value.matches) >= 1

\* the case of C6: the customer's only open invoice had a balance of
\* 10000.00 and 45 days outstanding, and the payment was 10000.00
C6_Case ==
    /\ PaymentReturned
    /\ LastPayment.amount = Dollars(10000)
    /\ \E k \in 1..Len(sample_invoices) :
          /\ OpenInvoicesOf(pre.sample_invoices, LastPayment.customer_id) = {k}
          /\ pre.sample_invoices[k].balance = Dollars(10000)
          /\ pre.sample_invoices[k].days_outstanding = 45

\* C6: 10000.00 paid on a sole open invoice of 10000.00, 45 days
\* outstanding, gives one exact match of confidence at least 0.9, overall
\* status matched, remaining amount 0.00, and an invoice balance of 0.00:
\* the invoice is no longer among the customer's open invoices.
C6_ExactMatch ==
    C6_Case =>
        LET k == CHOOSE j \in 1..Len(sample_invoices) :
                     OpenInvoicesOf(pre.sample_invoices, LastPayment.customer_id) = {j}
        IN  /\ Len(ret.value.matches) = 1
            /\ ret.value.matches[1].invoice_id = sample_invoices[k].invoice_id
            /\ ret.value.matches[1].confidence_score >= 90
            /\ ret.value.matches[1].match_type = "exact"
            /\ ret.value.status = "matched"
            /\ ret.value.remaining_amount = 0
            /\ sample_invoices[k].balance = 0
            /\ OpenInvoicesOf(sample_invoices, LastPayment.customer_id) = {}

C6_Witness == C6_Case

\* the case of C7: the call ran on a valid session and its customer had no
\* open invoice
C7_Case ==
    /\ PaymentReturned
    /\ OpenInvoicesOf(pre.sample_invoices, LastPayment.customer_id) = {}

\* C7: a payment for a customer without open invoices gives no match,
\* overall status exception, the whole payment amount remaining, and
\* changes no invoice.
C7_NoOpenInvoices ==
    C7_Case =>
        /\ ret.value.matches = <<>>
        /\ ret.value.status = "exception"
        /\ ret.value.remaining_amount = LastPayment.amount
        /\ sample_invoices = pre.sample_invoices

\* a known customer whose invoices are all paid
C7_Witness ==
    /\ C7_Case
    /\ InvoicesOf(sample_invoices, LastPayment.customer_id) # {}

DaysOf(match) == sample_invoices[InvoiceOf(match)].days_outstanding

\* no match pays an invoice while an older invoice of the customer is left
\* with a positive balance
C8_OlderPaidFirst ==
    \A m \in 1..Len(ret.value.matches) :
        \A j \in InvoicesOf(sample_invoices, LastPayment.customer_id) :
            sample_invoices[j].days_outstanding > DaysOf(ret.value.matches[m])
                => sample_invoices[j].balance = 0

\* C8 as claimed: each match's invoice has strictly fewer days outstanding
\* than the invoice of the match before it, and no invoice is paid while an
\* older one of the customer keeps a positive balance.
C8_AsClaimed ==
    PaymentReturned =>
        /\ \A m \in 2..Len(ret.value.matches) :
              DaysOf(ret.value.matches[m]) < DaysOf(ret.value.matches[m - 1])
        /\ C8_OlderPaidFirst

\* C8, amended: each match's invoice has at most as many days outstanding
\* as the invoice of the match before it (invoices of equal age are both
\* matched, one after the other), and no invoice is paid while an older one
\* of the customer keeps a positive balance.
C8_OldestFirst ==
    PaymentReturned =>
        /\ \A m \in 2..Len(ret.value.matches) :
              DaysOf(ret.value.matches[m]) <= DaysOf(ret.value.matches[m - 1])
        /\ C8_OlderPaidFirst

\* two matches, the older invoice standing later in the list of invoices
C8_Witness ==
    /\ PaymentReturned
    /\ Len(ret.value.matches) = 2
    /\ InvoiceOf(ret.value.matches[1]) > InvoiceOf(ret.value.matches[2])
    /\ DaysOf(ret.value.matches[1]) > DaysOf(ret.value.matches[2])

\* C9: a process_payment call whose session id was unknown or expired when
\* the call began raises Invalid session and leaves the invoices and the
\* processed payments as they were; a call whose session was live raises
\* nothing.
C9_InvalidSessionOnly ==
    ret.op = "process_payment" =>
        IF LiveAt(pre.sessions, ret.args, pre.now)
        THEN ret.outcome \in {"running", "ok"}
        ELSE /\ ret.outcome = "Invalid session"
             /\ sample_invoices = pre.sample_invoices
             /\ processed_payments = pre.processed_payments

\* an expired session, still in the store when the call began, was refused
C9_Witness ==
    /\ ret.op = "process_payment"
    /\ ret.outcome = "Invalid session"
    /\ ret.args \in DOMAIN pre.sessions
    /\ processed_payments # <<>>

\* C10: create_session succeeds exactly when fewer than MAX_SESSIONS of the
\* stored sessions are unexpired, and then adds one fresh session to the
\* unexpired ones; otherwise it raises the capacity error, adds nothing and
\* the store holds MAX_SESSIONS sessions; the store never holds more.
C10_Capacity ==
    /\ Cardinality(DOMAIN sessions) <= MAX_SESSIONS
    /\ ret.op = "create_session" =>
          LET live == {sid \in DOMAIN pre.sessions :
                          LiveAt(pre.sessions, sid, pre.now)}
          IN  IF Cardinality(live) < MAX_SESSIONS
              THEN /\ ret.outcome = "ok"
                   /\ ret.value \notin DOMAIN pre.sessions
                   /\ DOMAIN sessions = live \cup {ret.value}
              ELSE /\ ret.outcome = "Maximum number of demo sessions reached"
                   /\ DOMAIN sessions = live
                   /\ Cardinality(DOMAIN sessions) = MAX_SESSIONS

\* the store is full of unexpired sessions and a creation was refused
C10_Witness ==
    /\ ret.op = "create_session"
    /\ ret.outcome = "Maximum number of demo sessions reached"
    /\ \E sid \in DOMAIN sessions : sessions[sid].created_at > 0

\* what get_session did, by the store and the clock when it was called
C11_Returned ==
    ret.op = "get_session" =>
        LET sid == ret.args
        IN  IF sid \notin DOMAIN pre.sessions
            THEN /\ ret.value = <<>>
                 /\ sessions = pre.sessions
            ELSE IF pre.now - pre.sessions[sid].created_at <= SESSION_TTL_SECONDS
            THEN /\ ret.value = <<pre.sessions[sid]>>
                 /\ sessions = pre.sessions
            ELSE /\ ret.value = <<>>
                 /\ sid \notin DOMAIN sessions
                 /\ sessions = Restrict(pre.sessions, DOMAIN pre.sessions \ {sid})

\* an id that was drawn and is no longer live never becomes live again
C11_StaysAbsent ==
    \A sid \in SessionIds :
        (sid <= next_sid /\ ~LiveAt(sessions, sid, now))
            => ~LiveAt(sessions', sid, now')

\* C11: get_session returns the session when its id is stored and its age
\* is at most the TTL, leaving the store as it was; when the age is past
\* the TTL it returns absent and removes the entry; an unknown id returns
\* absent and leaves the store as it was; an id that once expired is
\* never live again, so every later get_session for it returns absent.
C11_GetSession == [](C11_Returned) /\ [][C11_StaysAbsent]_vars

\* an expired session, still stored, was read and removed
C11_Witness ==
    /\ ret.op = "get_session"
    /\ ret.value = <<>>
    /\ ret.args \in DOMAIN pre.sessions
    /\ ret.args \notin DOMAIN sessions
    /\ DOMAIN sessions # {}

\* C12: update_session_status on a live session sets its status, stamps
\* updated_at with the time of the call and merges the data into the
\* payload (the keys of the data take the new values, the other keys keep
\* theirs), and changes nothing else; on an absent or expired id no
\* stored session's fields change and none is added; it never raises.
C12_UpdateStatus ==
    ret.op = "update_session_status" =>
        LET sid == ret.args.session_id
            data == ret.args.data
        IN  /\ ret.outcome = "ok"
            /\ IF LiveAt(pre.sessions, sid, pre.now)
               THEN /\ DOMAIN sessions = DOMAIN pre.sessions
                    /\ \A other \in DOMAIN sessions \ {sid} :
                          sessions[other] = pre.sessions[other]
                    /\ sessions[sid].status = ret.args.status
                    /\ sessions[sid].updated_at = pre.now
                    /\ sessions[sid].created_at = pre.sessions[sid].created_at
                    /\ sessions[sid].demo_type = pre.sessions[sid].demo_type
                    /\ DOMAIN sessions[sid].data =
                          DOMAIN pre.sessions[sid].data \cup DOMAIN data
                    /\ \A k \in DOMAIN data : sessions[sid].data[k] = data[k]
                    /\ \A k \in DOMAIN pre.sessions[sid].data \ DOMAIN data :
                          sessions[sid].data[k] = pre.sessions[sid].data[k]
               ELSE /\ DOMAIN sessions \subseteq DOMAIN pre.sessions
                    /\ \A other \in DOMAIN sessions :
                          sessions[other] = pre.sessions[other]

\* a session that held one key was given another and holds both, and an
\* update was tried on a session that had expired
C12_Witness ==
    /\ ret.op = "update_session_status"
    /\ \E sid \in DOMAIN sessions :
          DOMAIN sessions[sid].data = {"progress", "result"}
    /\ ret.args.session_id \in DOMAIN pre.sessions
    /\ ~LiveAt(pre.sessions, ret.args.session_id, pre.now)

\* a connection that connect closed is never registered
C13_RejectedStayOut ==
    \A w \in WebSockets :
        websockets[w].close_code = 1013
            => /\ websockets[w].pc \in {"rejected", "done"}
               /\ w \notin DOMAIN connection_manager.connection_data

\* C13: in every state no session has more than MAX_CONNECTIONS_PER_SESSION
\* registered connections and no more than MAX_CONNECTIONS connections are
\* registered in all, whatever the order in which the steps of the connect
\* and disconnect calls run, several connects awaiting their accept
\* included; a connection closed with code 1013 is never registered.
C13_WithinCeilings ==
    /\ \A s \in DOMAIN connection_manager.active_connections :
          Cardinality(connection_manager.active_connections[s])
              <= MAX_CONNECTIONS_PER_SESSION
    /\ Cardinality(DOMAIN connection_manager.connection_data) <= MAX_CONNECTIONS
    /\ C13_RejectedStayOut

\* the registry is consistent
C14_Consistent ==
    LET active_connections == connection_manager.active_connections
        connection_data == connection_manager.connection_data
    IN  /\ \A s \in DOMAIN active_connections : active_connections[s] # {}
        /\ DOMAIN connection_data =
              UNION {active_connections[s] : s \in DOMAIN active_connections}
        /\ \A s \in DOMAIN active_connections :
              \A w \in active_connections[s] : connection_data[w].session_id = s
        /\ \A w \in WebSockets :
              websockets[w].pc = "done" => w \notin DOMAIN connection_data
        /\ (/\ ret.op = "websocket_message"
            /\ ret.outcome = "ok"
            /\ DictGet(ret.args.message, "type", NoneValue)
                  \notin {"start_simulation", "stop_simulation"}
            /\ ret.value = <<>>)
              => ret.args.websocket \notin DOMAIN connection_data

\* the endpoint of w ends, and w was not registered: nothing changes
C14_DisconnectUnregistered ==
    \A w \in WebSockets :
        (/\ websockets[w].pc # "done"
         /\ websockets'[w].pc = "done"
         /\ w \notin DOMAIN connection_manager.connection_data)
            => connection_manager' = connection_manager

\* C14: in every state no session id maps to an empty set, the connections
\* with metadata are exactly those in the sessions' sets, each in the set of
\* its own session, a connection whose endpoint has disconnected it or
\* whose send failed is in no set and has no metadata; and disconnecting a
\* connection that is not registered leaves the registry as it was.
C14_RegistryConsistent == [](C14_Consistent) /\ [][C14_DisconnectUnregistered]_vars

\* a send to one connection failed while another connection of its session
\* stays registered, and some endpoint has disconnected
C14_Witness ==
    /\ ret.op = "websocket_message"
    /\ ret.outcome = "ok"
    /\ ret.value = <<>>
    /\ ret.args.websocket \notin DOMAIN connection_manager.connection_data
    /\ Route(ret.args.websocket).session_id
          \in DOMAIN connection_manager.active_connections
    /\ \E w \in WebSockets : websockets[w].pc = "done" /\ websockets[w].first # ""

\* what the last message handled was, and the session it came in on
MessageHandled(type) ==
    /\ ret.op = "websocket_message"
    /\ ret.outcome = "ok"
    /\ DictGet(ret.args.message, "type", NoneValue) = type

HandledSession == Route(ret.args.websocket).session_id

RunningTasks(session_id) ==
    {t \in 1..Len(tasks) :
        tasks[t].session_id = session_id /\ tasks[t].state = "running"}

\* every session has at most one task that runs, and it is the registered one
C15_OneRunning ==
    \A t \in 1..Len(tasks) :
        tasks[t].state = "running"
            => /\ RunningTasks(tasks[t].session_id) = {t}
               /\ tasks[t].session_id \in DOMAIN realtime_simulator.active_simulations
               /\ realtime_simulator.active_simulations[tasks[t].session_id] = t

\* while a session has an entry no step registers another task for it or
\* creates a task for it
C15_EntryKept ==
    \A s \in DOMAIN realtime_simulator.active_simulations :
        /\ s \in DOMAIN realtime_simulator'.active_simulations
              => realtime_simulator'.active_simulations[s]
                    = realtime_simulator.active_simulations[s]
        /\ \A t \in 1..Len(tasks') :
              t > Len(tasks) => tasks'[t].session_id # s

\* C15: at any time at most one simulation task of a session runs, and it
\* is the one in the registry; a start request for a session that has an
\* entry creates no task and leaves the entry as it is, whichever of the
\* start operations it is and whichever connection of the session sent it.
C15_OneTaskPerSession == [](C15_OneRunning) /\ [][C15_EntryKept]_vars

\* the second connection of a session asked for a simulation of its own
\* kind while the simulation the first one started was running
C15_Witness ==
    /\ MessageHandled("start_simulation")
    /\ Len(tasks) = 1
    /\ tasks[1].state = "running"
    /\ tasks[1].idx > 0
    /\ tasks[1].kind # Route(ret.args.websocket).demo_type

\* after a stop the session has no entry
C16_Stopped ==
    MessageHandled("stop_simulation")
        => HandledSession \notin DOMAIN realtime_simulator.active_simulations

C16_Step ==
    /\ \A t \in 1..Len(tasks) :              \* a cancelled task does nothing more
          tasks[t].state = "cancelled" => tasks'[t] = tasks[t]
    /\ \A s \in DOMAIN realtime_simulator.active_simulations :
          s \notin DOMAIN realtime_simulator'.active_simulations
              => /\ tasks'[realtime_simulator.active_simulations[s]].state
                        \in {"cancelled", "finished"}
                 /\ tasks[realtime_simulator.active_simulations[s]].state = "running"
                        => tasks'[realtime_simulator.active_simulations[s]].state
                              = "cancelled"
    /\ (/\ ret' # ret
        /\ MessageHandled("stop_simulation")'
        /\ HandledSession' \notin DOMAIN realtime_simulator.active_simulations)
          => UNCHANGED <<realtime_simulator, tasks>>
    /\ (/\ ret' # ret
        /\ MessageHandled("start_simulation")'
        /\ Route(ret'.args.websocket).demo_type \in SimulationKinds
        /\ HandledSession' \notin DOMAIN realtime_simulator.active_simulations)
          => /\ Len(tasks') = Len(tasks) + 1
             /\ realtime_simulator'.active_simulations[HandledSession'] = Len(tasks')
             /\ tasks'[Len(tasks')].state = "running"
             /\ tasks'[Len(tasks')].idx = 0

\* C16: stop_simulation for a session with an entry cancels the registered
\* task and removes the entry; the cancelled task takes no further step,
\* so it sends no further event; a start request that finds no entry
\* creates a fresh task, at its first step, and registers it; a stop for a
\* session without entry changes neither the registry nor any task.
C16_StopSimulation == [](C16_Stopped) /\ [][C16_Step]_vars

\* a simulation that had sent events was stopped and a new one, started
\* afterwards, has sent its first events
C16_Witness ==
    /\ Len(tasks) = 2
    /\ tasks[1].state = "cancelled"
    /\ tasks[2].state = "running"
    /\ tasks[2].idx > 1
    /\ tasks[2].last_sent # <<>>

\* a task that has run to completion is still in the registry
FinishedRegistered(s) ==
    /\ s \in DOMAIN realtime_simulator.active_simulations
    /\ tasks[realtime_simulator.active_simulations[s]].state = "finished"

\* C17: once a simulation task of a session has sent its last event and
\* returned, the session eventually has no entry in the registry.
C17_HandleRemoved ==
    \A s \in {"s1", "s2"} :
        FinishedRegistered(s) ~> (s \notin DOMAIN realtime_simulator.active_simulations)

\* the step and status of the payment events in the order the claim gives
C18_Order ==
    << <<"validation", "in_progress">>, <<"validation", "completed">>,
       <<"matching", "in_progress">>, <<"matching", "completed">>,
       <<"scoring", "in_progress">>, <<"scoring", "completed">>,
       <<"applying", "in_progress">>, <<"applying", "completed">>,
       <<"updating", "in_progress">>, <<"updating", "completed">>,
       <<"completed", "in_progress">>, <<"completed", "completed">> >>

\* the last event of task t that connection c has received, 0 for none
LastSent(tk, t, c) == DictGet(tk[t].last_sent, c, 0)

\* a step delivers an event of a payment task to connection c
C18_Delivers(t, c) ==
    /\ tasks[t].kind = "payment_processing"
    /\ c \in DOMAIN tasks'[t].last_sent
    /\ LastSent(tasks', t, c) # LastSent(tasks, t, c)

C18_Step ==
    \A t \in 1..Len(tasks), c \in WebSockets :
        C18_Delivers(t, c)
            => LET i == LastSent(tasks', t, c)
               IN  /\ i \in 1..Len(C18_Order)
                   \* the event is the one the order has at this place
                   /\ TaskEvents(tasks[t])[i].step = C18_Order[i][1]
                   /\ TaskEvents(tasks[t])[i].status = C18_Order[i][2]
                   \* a connection that has received an event receives the next one
                   /\ c \in DOMAIN tasks[t].last_sent => i = LastSent(tasks, t, c) + 1
                   \* the task that sends is the one simulation of the session
                   /\ RunningTasks(tasks[t].session_id) = {t}
                   /\ \A u \in 1..Len(tasks) :
                         u # t => tasks'[u].last_sent = tasks[u].last_sent

\* a connection that is registered and has received an event of the running
\* payment task is at the event the task is at, or one behind while the
\* broadcast of that event has not reached it
C18_NoGap ==
    \A t \in 1..Len(tasks) :
        (tasks[t].kind = "payment_processing" /\ tasks[t].state = "running")
            => \A c \in DOMAIN tasks[t].last_sent :
                  c \in DOMAIN connection_manager.connection_data
                      => \/ tasks[t].last_sent[c] = tasks[t].idx
                         \/ /\ tasks[t].last_sent[c] = tasks[t].idx - 1
                            /\ c \in tasks[t].pending

\* C18: the events of a payment simulation reach a connection that stays
\* registered in the order validation, matching, scoring, applying,
\* updating, completed, each step in_progress and then completed; no event
\* is left out or repeated, and no other task's events come in between.
C18_PaymentSequential == [](C18_NoGap) /\ [][C18_Step]_vars

\* two connections of a session have both received all twelve events of its
\* payment simulation
C18_Witness ==
    \E t \in 1..Len(tasks) :
        /\ tasks[t].kind = "payment_processing"
        /\ tasks[t].state = "running"
        /\ \E c, d \in DOMAIN connection_manager.connection_data :
              /\ LastSent(tasks, t, c) = Len(C18_Order)
              /\ LastSent(tasks, t, d) = Len(C18_Order)
              /\ c # d

\* a connection the manager holds has received connection_established
\* before anything else
C19_First ==
    \A w \in DOMAIN connection_manager.connection_data :
        websockets[w].first = "connection_established"

\* the replies to the message handled last: one or, when the send failed
\* and the connection was dropped, none
C19_Replies == ret.value

C19_SendFailed ==
    /\ C19_Replies = <<>>
    /\ ret.args.websocket \notin DOMAIN connection_manager.connection_data

C19_Reply ==
    (ret.op = "websocket_message" /\ ret.outcome = "ok")
        => LET type == DictGet(ret.args.message, "type", NoneValue)
           IN  CASE type \in {"start_simulation", "stop_simulation"} ->
                       C19_Replies = <<>>
                 [] type = "ping" ->
                       \/ /\ Len(C19_Replies) = 1
                          /\ C19_Replies[1].type = "pong"
                       \/ C19_SendFailed
                 [] OTHER ->
                       \/ C19_Replies = <<[type |-> "echo",
                                           original_message |-> ret.args.message]>>
                       \/ C19_SendFailed

\* handling a ping or a message that is echoed starts, stops and advances no
\* simulation: where none was started the reply comes before any event;
\* handling a start or a stop sends the client nothing and drops no connection
C19_Step ==
    (ret' # ret /\ ret'.op = "websocket_message" /\ ret'.outcome = "ok")
        => IF DictGet(ret'.args.message, "type", NoneValue)
                 \in {"start_simulation", "stop_simulation"}
           THEN UNCHANGED <<websockets, connection_manager>>
           ELSE UNCHANGED <<tasks, realtime_simulator>>

\* C19: a registered connection has received connection_established first;
\* a ping is answered by one pong, a message of any type other than
\* start_simulation, stop_simulation and ping (or of no type) by one echo
\* that carries the message as it was sent, and start_simulation and
\* stop_simulation by nothing; the reply is missing only when its send
\* failed, which drops the connection.
C19_MessageProtocol == [](C19_First /\ C19_Reply) /\ [][C19_Step]_vars

\* a message without a type was echoed to a client whose simulation had not
\* sent it anything, and nothing had been started
C19_Witness ==
    /\ MessageHandled(NoneValue)
    /\ Len(C19_Replies) = 1
    /\ C19_Replies[1].type = "echo"
    /\ C19_Replies[1].original_message = [data |-> "test"]
    /\ websockets[ret.args.websocket].first = "connection_established"
    /\ tasks = <<>>

Registered == DOMAIN connection_manager.connection_data

\* every connection of the broadcast under way that the loop has passed and
\* that is still registered has received the event
C20_Received ==
    \A t \in 1..Len(tasks) :
        tasks[t].state = "running"
            => \A c \in (tasks[t].copy \ tasks[t].pending) \cap Registered :
                  LastSent(tasks, t, c) = tasks[t].idx

\* a send of a task's broadcast fails: a task moves, no client went away
\* and no message was handled, and the registry changes
C20_SendFails ==
    /\ tasks' # tasks
    /\ connection_manager' # connection_manager
    /\ UNCHANGED <<websockets, ret, realtime_simulator>>

C20_Step ==
    C20_SendFails
        => \E c \in Registered :
              \* that connection alone leaves the registry
              /\ DOMAIN connection_manager'.connection_data = Registered \ {c}
              /\ \A d \in Registered \ {c} :
                    connection_manager'.connection_data[d]
                        = connection_manager.connection_data[d]
              /\ \A s \in DOMAIN connection_manager.active_connections :
                    SessionConnections(connection_manager', s)
                        = connection_manager.active_connections[s] \ {c}
              \* the task goes on, with the connections it has not sent to
              /\ \E t \in 1..Len(tasks) :
                    /\ tasks'[t].state = "running"
                    /\ tasks'[t].pending =
                          (IF tasks[t].pending = {}     \* the broadcast begins
                           THEN SessionConnections(connection_manager,
                                                   tasks[t].session_id)
                           ELSE tasks[t].pending) \ {c}
                    /\ \A u \in 1..Len(tasks) : u # t => tasks'[u] = tasks[u]

\* C20: a send that fails within a broadcast removes the connection it was
\* for from the registry and no other; the task that broadcasts keeps
\* running and goes on to the connections it has not sent to, so that every
\* other connection of the broadcast that is registered receives the event.
C20_FailedSendLocal == [](C20_Received) /\ [][C20_Step]_vars

\* a broadcast to two connections is over: the send to one failed and it is
\* out of the registry, the other is registered and has the event
C20_Witness ==
    \E t \in 1..Len(tasks) :
        /\ tasks[t].state = "running"
        /\ tasks[t].pending = {}
        /\ \E c, d \in tasks[t].copy :
              /\ c \notin Registered
              /\ websockets[c].pc = "receive"
              /\ LastSent(tasks, t, c) < tasks[t].idx
              /\ d \in Registered
              /\ LastSent(tasks, t, d) = tasks[t].idx

\* a process_payment call returns its result
PaymentReturns == pc = "apply" /\ pc' = "idle"

\* after the step the session of the call is completed and holds the result
C21_Stored ==
    /\ call.session_id \in DOMAIN sessions'
    /\ sessions'[call.session_id].status = "completed"
    /\ "payment_result" \in DOMAIN sessions'[call.session_id].data
    /\ sessions'[call.session_id].data.payment_result = ret'.value
    /\ ret'.value = call.result

\* between calls no session of the store is running
C21_NoneRunning ==
    pc = "idle" => \A sid \in DOMAIN sessions : sessions[sid].status # "running"

\* C21 as claimed: every call that returns leaves its session completed,
\* with the result in its data, and no session stays running.
C21_AsClaimed == [](C21_NoneRunning) /\ [][PaymentReturns => C21_Stored]_vars

\* C21: a call that returns leaves its session completed, with the result
\* it returns in the session's data, when the session is within its TTL at
\* the moment the result is stored; when the TTL ran out during the call
\* the session is removed instead and the result is returned only.  Between
\* calls no session of the store is running.
C21_CompletedUnlessExpired ==
    /\ [](C21_NoneRunning)
    /\ [][PaymentReturns =>
             IF now - sessions[call.session_id].created_at <= SESSION_TTL_SECONDS
             THEN C21_Stored
             ELSE /\ call.session_id \notin DOMAIN sessions'
                  /\ ret'.value = call.result]_vars

\* a call with matches has returned and its session holds the result
C21_Witness ==
    /\ ret.op = "process_payment"
    /\ ret.outcome = "ok"
    /\ ret.value.matches # <<>>
    /\ ret.args \in DOMAIN sessions
    /\ sessions[ret.args].status = "completed"
    /\ sessions[ret.args].data.payment_result = ret.value

\* the invoice ids of a list of matches
MatchedIds(matches) == {matches[m].invoice_id : m \in 1..Len(matches)}

\* C22: every match of a call names an invoice of the payment's customer,
\* and the call changes nothing but the balance of the invoices its matches
\* name: invoices of other customers and unmatched invoices of the customer
\* are as they were, and no other step writes an invoice.
C22_Frame ==
    /\ sample_invoices' # sample_invoices => PaymentReturns
    /\ PaymentReturns =>
          /\ ret'.value = call.result
          /\ \A id \in MatchedIds(call.result.matches) :
                \E k \in 1..Len(sample_invoices) :
                    /\ sample_invoices[k].invoice_id = id
                    /\ sample_invoices[k].customer_id = call.payment.customer_id
          /\ Len(sample_invoices') = Len(sample_invoices)
          /\ \A k \in 1..Len(sample_invoices) :
                /\ sample_invoices'[k]
                      = [sample_invoices[k] EXCEPT
                            !.balance = sample_invoices'[k].balance]
                /\ sample_invoices'[k].balance # sample_invoices[k].balance
                      => /\ sample_invoices[k].invoice_id
                               \in MatchedIds(call.result.matches)
                         /\ sample_invoices[k].customer_id = call.payment.customer_id

C22_MatchesOwnCustomer == [][C22_Frame]_vars

\* a call has paid one invoice of a customer and left another open invoice
\* of that customer and the invoices of the other customer as they were
C22_Witness ==
    /\ ret.op = "process_payment"
    /\ ret.outcome = "ok"
    /\ \E k, j, o \in 1..Len(sample_invoices) :
          /\ sample_invoices[k].invoice_id \in MatchedIds(ret.value.matches)
          /\ sample_invoices[k].balance < pre.sample_invoices[k].balance
          /\ sample_invoices[j].customer_id = sample_invoices[k].customer_id
          /\ sample_invoices[j].invoice_id \notin MatchedIds(ret.value.matches)
          /\ sample_invoices[j].balance > 0
          /\ sample_invoices[j].balance = pre.sample_invoices[j].balance
          /\ sample_invoices[o].customer_id # sample_invoices[k].customer_id
          /\ sample_invoices[o].balance > 0
          /\ sample_invoices[o].balance = pre.sample_invoices[o].balance

\* the rules of the claim, in its order, in hundredths
C23_Exact(payment, invoice) ==
    Abs(payment.amount - invoice.balance) * 100 < UnitsPerDollar

C23_Within5(payment, invoice) ==
    Abs(payment.amount - invoice.balance) * 100 < 5 * invoice.balance

C23_Reference(payment, invoice) ==
    Contains(RemoveChar(payment.reference, "-"),
             RemoveSub(RemoveChar(invoice.invoice_number, "-"), Chars_INV))

C23_FirstRule(payment, invoice) ==
    IF C23_Exact(payment, invoice) THEN 95
    ELSE IF C23_Within5(payment, invoice) THEN 85
    ELSE IF C23_Reference(payment, invoice) THEN 90
    ELSE 70

\* 0.9 times the value, rounded to two decimals as the float rounds it
C23_Discounted(score) ==
    CASE score = 95 -> 85 [] score = 85 -> 77 [] score = 90 -> 81 [] score = 70 -> 63

\* C23: the score is that of the first rule that applies, in the order
\* exact amount (0.95), amount within 5% (0.85), invoice number in the
\* reference (0.90), none (0.70), times 0.9 and rounded to two decimals for
\* an invoice more than 90 days outstanding; a pair in an amount band scores
\* by that band whatever its reference; the score lies in [0, 1].
C23_FirstRuleDecides ==
    ret.op = "_calculate_match_confidence"
        => LET payment == ret.args.payment
               invoice == ret.args.invoice
               score == C23_FirstRule(payment, invoice)
           IN  /\ ret.outcome = "ok"
               /\ ret.value = IF invoice.days_outstanding > 90
                              THEN C23_Discounted(score) ELSE score
               /\ ret.value >= 0 /\ ret.value <= 100
               /\ (C23_Within5(payment, invoice) /\ C23_Reference(payment, invoice))
                     => ret.value \in {95, 85, 77}

\* a payment within 5% of the balance that names the invoice in its
\* reference was scored 0.85
C23_Witness ==
    /\ ret.op = "_calculate_match_confidence"
    /\ ~C23_Exact(ret.args.payment, ret.args.invoice)
    /\ C23_Within5(ret.args.payment, ret.args.invoice)
    /\ C23_Reference(ret.args.payment, ret.args.invoice)
    /\ ret.args.invoice.days_outstanding <= 90
    /\ ret.value = 85

\* C24: the result of every extract_data run on a live session has
\* processed_records + failed_records = total_records, with
\* 0 <= failed_records <= total_records and total_records > 0.
C24_CountsConsistent ==
    (ret.op = "extract_data" /\ ret.outcome = "ok")
        => /\ ret.value.processed_records + ret.value.failed_records
                 = ret.value.total_records
           /\ 0 <= ret.value.failed_records
           /\ ret.value.failed_records <= ret.value.total_records
           /\ ret.value.total_records > 0

\* a run of the smallest volume has failed as many records as it can
C24_Witness ==
    /\ ret.op = "extract_data"
    /\ ret.outcome = "ok"
    /\ ret.value.total_records = 50
    /\ ret.value.failed_records = 2
    /\ ret.value.processed_records = 48

\* C25: of the POSTs of one client to the session endpoint within one
\* minute the first 10 are not answered 429, and a later one is answered
\* 429 and creates no session.
C25_RateLimited ==
    ret.op = "POST /demos/api/payment-processing/session"
        => IF ret.args.request <= 10
           THEN ret.value.status_code # 429
           ELSE /\ ret.value.status_code = 429
                /\ sessions = pre.sessions

\* the age of a stored session at time t
Age(ss, sid, t) == t - ss[sid].created_at

\* no step changes the creation time of a session, removes a session whose
\* age is at most the TTL, or brings back a session that was removed
C26_Step ==
    /\ \A sid \in DOMAIN sessions :
          /\ sid \in DOMAIN sessions'
                => sessions'[sid].created_at = sessions[sid].created_at
          /\ Age(sessions, sid, now) <= SESSION_TTL_SECONDS
                => sid \in DOMAIN sessions'
    /\ \A sid \in DOMAIN sessions' \ DOMAIN sessions : sid = next_sid + 1

\* get_session returns a session exactly when the store holds it and no more
\* than the TTL has passed since its creation, whatever was done to it
C26_Reachable ==
    ret.op = "get_session"
        => (ret.value # <<>>
              <=> /\ ret.args \in DOMAIN pre.sessions
                  /\ Age(pre.sessions, ret.args, pre.now) <= SESSION_TTL_SECONDS)

\* C26: the lifetime of a session runs from its creation: no operation
\* changes created_at, get_session returns nothing for a session older than
\* the TTL however recently it was updated, and no operation, create_session
\* at capacity included, removes a session whose age is at most the TTL.
C26_LifetimeFromCreation == [](C26_Reachable) /\ [][C26_Step]_vars

\* a session that was updated within the last TTL seconds is older than the
\* TTL, and get_session has returned nothing for it
C26_Witness ==
    /\ ret.op = "get_session"
    /\ ret.value = <<>>
    /\ ret.args \in DOMAIN pre.sessions
    /\ pre.sessions[ret.args].status = "completed"
    /\ pre.now - pre.sessions[ret.args].updated_at <= SESSION_TTL_SECONDS
    /\ pre.now - pre.sessions[ret.args].created_at > SESSION_TTL_SECONDS

\* what the loop of _find_payment_matches has left after these matches
RECURSIVE LoopRemaining(_, _)
LoopRemaining(remaining_amount, matches) ==
    IF matches = <<>> THEN remaining_amount
    ELSE LoopRemaining(FSub(remaining_amount, Head(matches).amount_applied),
                       Tail(matches))

\* every score is at least 0.5
C27_NoLowScore ==
    PaymentReturned
        => /\ \A m \in 1..Len(ret.value.matches) :
                 ret.value.matches[m].confidence_score >= 50
           /\ \A k \in InvoicesOf(pre.sample_invoices, LastPayment.customer_id) :
                 pre.sample_invoices[k].balance > 0
                    => CalculateMatchConfidence(LastPayment, pre.sample_invoices[k]) >= 50

\* an open invoice of the customer is left without a match only when the
\* loop has used the payment up
C27_NoSkip ==
    PaymentReturned
        => \A k \in InvoicesOf(pre.sample_invoices, LastPayment.customer_id) :
              (/\ pre.sample_invoices[k].balance > 0
               /\ pre.sample_invoices[k].invoice_id \notin MatchedIds(ret.value.matches))
                  => LoopRemaining(LastPayment.amount, ret.value.matches) <= 0

\* a remaining amount above 0 is returned only with every invoice of the
\* customer at balance 0
C27_RemainingOnlyWhenAllPaid ==
    (PaymentReturned /\ ret.value.remaining_amount > 0)
        => \A k \in InvoicesOf(sample_invoices, LastPayment.customer_id) :
              sample_invoices[k].balance = 0

\* C27: the low-confidence skip is never taken, every open invoice of the
\* customer visited while the loop's remaining amount is positive receives a
\* match, and a call returns a remaining amount above 0 only when all of the
\* customer's invoices have balance 0 afterwards.
C27_AsClaimed == C27_NoLowScore /\ C27_NoSkip /\ C27_RemainingOnlyWhenAllPaid

\* the balance an invoice had when the call that matched it began
BalanceBefore(match) == pre.sample_invoices[InvoiceOf(match)].balance

\* C28: no match of a call has match-type "manual": a match is "exact" when
\* its amount is the invoice's balance and "partial" when it is less; every
\* match but the last of a list is "exact", and after a "partial" match the
\* remaining amount of the matching loop is zero.
C28_ExactOrPartial ==
    PaymentReturned
        => LET matches == ret.value.matches
           IN  \A m \in 1..Len(matches) :
                  /\ matches[m].match_type \in {"exact", "partial"}
                  /\ matches[m].match_type = "exact"
                        <=> matches[m].amount_applied = BalanceBefore(matches[m])
                  /\ matches[m].match_type = "partial"
                        <=> matches[m].amount_applied < BalanceBefore(matches[m])
                  /\ m < Len(matches) => matches[m].match_type = "exact"
                  /\ matches[m].match_type = "partial"
                        => LoopRemaining(LastPayment.amount, SubSeq(matches, 1, m)) = 0

\* a call has returned an exact match followed by a partial one
C28_Witness ==
    /\ PaymentReturned
    /\ Len(ret.value.matches) = 2
    /\ ret.value.matches[1].match_type = "exact"
    /\ ret.value.matches[2].match_type = "partial"
    /\ ret.value.matches[2].amount_applied < BalanceBefore(ret.value.matches[2])

\* a call has returned a match whose amount is both the whole payment and
\* the whole balance of its invoice
C28_WitnessEqual ==
    /\ PaymentReturned
    /\ Len(ret.value.matches) = 1
    /\ ret.value.matches[1].amount_applied = LastPayment.amount
    /\ ret.value.matches[1].amount_applied = BalanceBefore(ret.value.matches[1])

\* the handler of connection w returns in this step: its receive raised
HandlerEnds(w) ==
    /\ websockets[w].pc \in {"receive", "rejected"}
    /\ websockets'[w].pc = "done"

\* the endpoint coroutine of w is between its call and its return
HandlerLive(w) == websockets[w].pc \in {"accept", "receive", "rejected"}

\* when a handler ends, its session has no entry in the registry afterwards
\* and the task the entry named is running no more
C29_Step ==
    \A w \in WebSockets :
        HandlerEnds(w)
            => LET session_id == Route(w).session_id
                   registry == realtime_simulator.active_simulations
               IN  /\ session_id \notin DOMAIN realtime_simulator'.active_simulations
                   /\ session_id \in DOMAIN registry
                         => tasks'[registry[session_id]].state # "running"
                   /\ w \notin DOMAIN connection_manager'.connection_data

\* a session in the registry has a handler that has not ended
C29_NoneLeft ==
    \A session_id \in DOMAIN realtime_simulator.active_simulations :
        \E w \in WebSockets : Route(w).session_id = session_id /\ HandlerLive(w)

\* C29: whenever the handler of a connection ends, by a client's disconnect
\* or by an error of its receive loop, its session's simulation is cancelled
\* and taken out of the registry, other connections of the session being
\* registered or not; so no session whose handlers have all ended has a
\* simulation in the registry.
C29_HandlerEndStops == [](C29_NoneLeft) /\ [][C29_Step]_vars

\* a handler has ended by an error while another connection of its session
\* is registered, and the session's running simulation was cancelled
C29_Witness ==
    /\ ret.op = "websocket_message"
    /\ ret.outcome = "AttributeError"
    /\ websockets[ret.args.websocket].pc = "done"
    /\ \E t \in 1..Len(tasks) :
          /\ tasks[t].state = "cancelled"
          /\ tasks[t].session_id = Route(ret.args.websocket).session_id
    /\ SessionConnections(connection_manager, Route(ret.args.websocket).session_id) # {}
    /\ Route(ret.args.websocket).session_id
          \notin DOMAIN realtime_simulator.active_simulations

\* a broadcast has returned or raised
BroadcastEnded ==
    /\ pc = "idle"
    /\ ret.op \in {"broadcast_to_all", "broadcast_to_demo_type"}
    /\ ret.outcome # "running"

\* C30: a broadcast in which a send failed raises nothing to its caller, and
\* every connection it targeted other than the failing ones, if still
\* registered when it ends, has received the message.
C30_OnlyFailingDropped ==
    (BroadcastEnded /\ ret.value.failed # {})
        => /\ ret.outcome = "ok"
           /\ \A w \in ret.args.targets \ ret.value.failed :
                 w \in DOMAIN connection_manager.connection_data
                    => w \in ret.value.sent

\* the connections a broadcast failed to send to are out of the registry
\* when it ends
C30_FailingDropped ==
    BroadcastEnded
        => ret.value.failed \cap DOMAIN connection_manager.connection_data = {}

====
